---- MODULE Spec2Model ----
(***************************************************************************)
(* Model of the AudioStreamer class (src/unnamed/part_000): PCM16 ingest,  *)
(* the playback queue, the look-ahead scheduler with its two kinds of      *)
(* timers, the per-unit end notifications, the lifecycle operations, the   *)
(* keep-alive oscillator, the ambient pad and the worklet taps; and of the *)
(* DatabaseBridge component (src/components/DatabaseBridge.tsx): its       *)
(* ingestion effect, processNewData and the consumer loop.                 *)
(*                                                                         *)
(* Time is the device clock context.currentTime counted in sample periods  *)
(* (1/sampleRate of a second), so a block of n samples lasts n time units  *)
(* and every constant of the source keeps its value.                       *)
(***************************************************************************)
EXTENDS Integers, Sequences, FiniteSets, TLC

\* ------------------------------------------------------------------------
\* Program constants
\* ------------------------------------------------------------------------
sampleRate == 24000
bufferSize == 7680
\* 0.1 s, in sample periods
initialBufferTime == sampleRate \div 10
\* 0.2 s
SCHEDULE_AHEAD_TIME == sampleRate \div 5
\* window.setInterval(..., 100): 100 ms
CHECK_INTERVAL == sampleRate \div 10
\* the 50 ms margin of the one-shot timer
TIMEOUT_MARGIN == sampleRate \div 20
\* null for object references and timer handles
NULL == 0

\* the value null of a field that holds an audio node
NoNode == [type |-> "null"]

\* ------------------------------------------------------------------------
\* Bounds of the model
\* ------------------------------------------------------------------------
\* the device clock advances in steps of ClockStep sample periods ...
ClockStep == 2400
\* ... up to MaxTime
MaxTime == 19200
\* calls of the public methods in one run, and of each of addPCM16 / stop /
\* resume / complete
MaxCalls == 3
MaxIngest == 3
MaxStop == 1
MaxResume == 1
MaxComplete == 1

MaxPadCalls == 4

PadClockStep == 48000

PadMaxTime == 96000

MaxPadIngest == 1

Max(a, b) == IF a >= b THEN a ELSE b
Min(a, b) == IF a <= b THEN a ELSE b

\* ------------------------------------------------------------------------
\* Byte buffers and sample arrays
\* ------------------------------------------------------------------------
\* A Uint8Array handed to addPCM16: `length' bytes whose values are
\* generated from `seed'; `id' is the ordinal of the addPCM16 call.
Chunk(id, seed, length) == [id |-> id, seed |-> seed, length |-> length]

\* the byte at index i (0-based) of a chunk
ByteAt(chunk, i) == (chunk.seed + 37 * i + (i \div 256)) % 256

\* getInt16 without the littleEndian flag: big-endian
getInt16_bigEndian(chunk, byteOffset) ==
  LET hi == ByteAt(chunk, byteOffset)
      lo == ByteAt(chunk, byteOffset + 1)
      u  == lo + 256 * hi
  IN  IF hi >= 128 THEN u - 65536 ELSE u

\* DataView.getInt16(byteOffset, littleEndian = true)
getInt16(chunk, byteOffset) ==
  LET lo == ByteAt(chunk, byteOffset)
      hi == ByteAt(chunk, byteOffset + 1)
      u  == lo + 256 * hi
  IN  IF hi >= 128 THEN u - 65536 ELSE u

\* A Float32Array is a sequence of runs; a run is `len' consecutive decoded
\* samples of one chunk starting at sample index `off'.  The sample values
\* are int16 / 32768, kept as the pair <<numerator, 32768>> (every such
\* quotient is exactly representable in a float32).
Run(chunk, off, len) == [chunk |-> chunk, off |-> off, len |-> len]

RunSample(r, i) == <<getInt16(r.chunk, 2 * (r.off + i)), 32768>>

RECURSIVE ArrLen(_)
ArrLen(a) == IF a = <<>> THEN 0 ELSE Head(a).len + ArrLen(Tail(a))

\* a[i], 0-based
RECURSIVE ArrAt(_, _)
ArrAt(a, i) ==
  IF i < Head(a).len THEN RunSample(Head(a), i)
  ELSE ArrAt(Tail(a), i - Head(a).len)

\* Float32Array.prototype.slice(begin, end): a copy of the samples
\* [begin, min(end, length))
RECURSIVE slice(_, _, _)
slice(a, begin, end) ==
  IF a = <<>> \/ end <= 0 THEN <<>>
  ELSE LET r    == Head(a)
           b    == Max(begin, 0)
           e    == Min(end, r.len)
           rest == slice(Tail(a), begin - r.len, end - r.len)
       IN  IF b < e THEN <<Run(r.chunk, r.off + b, e - b)>> \o rest ELSE rest

\* _processPCM16Chunk: chunk.length / 2 samples, sample i decoded from the
\* bytes 2i and 2i+1 (little-endian) and divided by 32768
_processPCM16Chunk(chunk) ==
  IF chunk.length \div 2 = 0 THEN <<>>
  ELSE <<Run(chunk, 0, chunk.length \div 2)>>

\* addPCM16 pushing the remainder without the length > 0 test
RECURSIVE PushBlocks_alwaysTail(_, _)
PushBlocks_alwaysTail(queue, processingBuffer) ==
  IF ArrLen(processingBuffer) >= bufferSize
  THEN PushBlocks_alwaysTail(
         Append(queue, slice(processingBuffer, 0, bufferSize)),
         slice(processingBuffer, bufferSize, ArrLen(processingBuffer)))
  ELSE Append(queue, processingBuffer)

\* addPCM16 topping up a partial block left at the queue tail with the
\* leading samples of the new buffer
RECURSIVE PushBlocks_carry(_, _)
PushBlocks_carry(queue, processingBuffer) ==
  IF /\ Len(queue) > 0
     /\ ArrLen(queue[Len(queue)]) < bufferSize
     /\ ArrLen(processingBuffer) > 0
  THEN LET tail == queue[Len(queue)]
           room == bufferSize - ArrLen(tail)
       IN  PushBlocks_carry(
             Append(SubSeq(queue, 1, Len(queue) - 1),
                    tail \o slice(processingBuffer, 0, room)) \o
             (IF ArrLen(processingBuffer) > room
              THEN <<slice(processingBuffer, room, Min(room + bufferSize,
                                                     ArrLen(processingBuffer)))>>
              ELSE <<>>),
             slice(processingBuffer, room + bufferSize,
                   ArrLen(processingBuffer)))
  ELSE IF ArrLen(processingBuffer) >= bufferSize
       THEN PushBlocks_carry(
              Append(queue, slice(processingBuffer, 0, bufferSize)),
              slice(processingBuffer, bufferSize, ArrLen(processingBuffer)))
       ELSE IF ArrLen(processingBuffer) > 0
            THEN Append(queue, processingBuffer)
            ELSE queue

\* the while loop and the trailing if of addPCM16: the queue after pushing
\* the blocks cut from processingBuffer
RECURSIVE PushBlocks(_, _)
PushBlocks(queue, processingBuffer) ==
  IF ArrLen(processingBuffer) >= bufferSize
  THEN PushBlocks(Append(queue, slice(processingBuffer, 0, bufferSize)),
                  slice(processingBuffer, bufferSize, ArrLen(processingBuffer)))
  ELSE IF ArrLen(processingBuffer) > 0
       THEN Append(queue, processingBuffer)
       ELSE queue

\* createAudioBuffer(audioData).duration: length / sampleRate seconds, which
\* is `length' sample periods
Duration(audioData) == ArrLen(audioData)

\* ------------------------------------------------------------------------
\* State
\* ------------------------------------------------------------------------
VARIABLES
  now,                    \* context.currentTime
  audioQueue,             \* Float32Array[]
  isPlaying,
  isStreamComplete,
  checkInterval,          \* handle of the periodic timer, or NULL
  scheduledTime,
  sources,                \* every AudioBufferSourceNode created, in order
  activeSources,          \* Set<AudioBufferSourceNode>, as indices of sources
  endOfQueueAudioSource,  \* index of sources, or NULL
  intervals,              \* armed window.setInterval timers
  timeouts,               \* armed setTimeout timers (due times, sorted)
  gainNode,               \* the main gain stage
  keepAliveOscillator,    \* the keep-alive oscillator, or NoNode
  padGain,                \* GainNode of the ambient pad, or NoNode
  padFilter,              \* BiquadFilterNode of the ambient pad, or NoNode
  padOscillators,         \* OscillatorNode[]
  padTimeouts,            \* armed teardown timers of stopPad (due times)
  resuming,               \* calls of resume() waiting on context.resume()
  registeredWorklets,     \* the entry of this.context in the worklet registry
  loading,                \* addWorklet calls waiting on audioWorklet.addModule
  \* history, read only by the properties
  enq,                    \* enq[k]: the blocks pushed by the k-th addPCM16
  fed,                    \* every chunk given to addPCM16, in call order
  completions,            \* every invocation of onComplete, in order
  calls,                  \* the calls of the public methods, in order
  padCalls,               \* the calls of the pad methods, in order
  workletCalls,           \* the calls of addWorklet, in order
  workletNodes,           \* every AudioWorkletNode constructed, in order
  twin,                   \* a second streamer, constructed with the other
                          \* outcome of startKeepAlive and given the same
                          \* calls and host events
  \* DatabaseBridge (src/components/DatabaseBridge.tsx)
  connected,              \* the prop the last effect run saw
  queueRef,               \* queueRef.current: text segments to send
  isProcessingRef,        \* isProcessingRef.current
  lastProcessedIdRef,     \* lastProcessedIdRef.current, or NULL
  effect,                 \* runs of the ingestion effect so far
  subscribed,             \* worker and realtime channel of the effect live
  fetches,                \* fetchLatest calls waiting for the database
  events,                 \* realtime payloads not yet delivered
  loops,                  \* processQueueLoop invocations asleep in their
                          \* await, each by the effect run it belongs to
  table,                  \* latest row of eburon_tts_current, or NoRow
  writes,                 \* rows written to the table so far
  sent,                   \* every client.send, in order
  deliveries,             \* every call of processNewData, in order
  cycle                   \* starts of the scheduler loop so far

vars == <<now, audioQueue, isPlaying, isStreamComplete, checkInterval,
          scheduledTime, sources, activeSources, endOfQueueAudioSource,
          intervals, timeouts, gainNode, keepAliveOscillator, padGain,
          padFilter, padOscillators, padTimeouts, resuming, enq, fed,
          completions, calls, padCalls, cycle, registeredWorklets, loading,
          workletCalls, workletNodes, twin, connected, queueRef,
          isProcessingRef, lastProcessedIdRef, effect, subscribed, fetches,
          events, loops, table, writes, sent, deliveries>>

\* the audio graph outside the scheduler: main gain stage and keep-alive
graph == <<gainNode, keepAliveOscillator>>

\* the ambient pad
pad == <<padGain, padFilter, padOscillators, padTimeouts, padCalls>>

\* the post-processing taps
worklets == <<registeredWorklets, loading, workletCalls, workletNodes>>

\* the database bridge
bridge == <<connected, queueRef, isProcessingRef, lastProcessedIdRef, effect,
            subscribed, fetches, events, loops, table, writes, sent,
            deliveries>>

\* the fields of the object a scheduling pass reads and writes
This ==
  [audioQueue |-> audioQueue, isPlaying |-> isPlaying,
   isStreamComplete |-> isStreamComplete, checkInterval |-> checkInterval,
   scheduledTime |-> scheduledTime, sources |-> sources,
   activeSources |-> activeSources,
   endOfQueueAudioSource |-> endOfQueueAudioSource,
   intervals |-> intervals, timeouts |-> timeouts]

Commit(s) ==
  /\ audioQueue' = s.audioQueue
  /\ isPlaying' = s.isPlaying
  /\ isStreamComplete' = s.isStreamComplete
  /\ checkInterval' = s.checkInterval
  /\ scheduledTime' = s.scheduledTime
  /\ sources' = s.sources
  /\ activeSources' = s.activeSources
  /\ endOfQueueAudioSource' = s.endOfQueueAudioSource
  /\ intervals' = s.intervals
  /\ timeouts' = s.timeouts

CountOf(seq, x) == Cardinality({i \in 1..Len(seq) : seq[i] = x})

\* ------------------------------------------------------------------------
\* Timers of the host
\* ------------------------------------------------------------------------
\* a handle not in use (handles are positive, so a handle is truthy)
FreshHandle(ivs) ==
  CHOOSE h \in 1..(Cardinality(ivs) + 1) : \A iv \in ivs : iv.id # h

\* setTimeout(cb, delay): one more pending one-shot timer
RECURSIVE InsertSorted(_, _)
InsertSorted(seq, x) ==
  IF seq = <<>> \/ x <= Head(seq) THEN <<x>> \o seq
  ELSE <<Head(seq)>> \o InsertSorted(Tail(seq), x)

RemoveAt(seq, i) == SubSeq(seq, 1, i - 1) \o SubSeq(seq, i + 1, Len(seq))

\* clearInterval(handle)
ClearInterval(ivs, handle) == {iv \in ivs : iv.id # handle}

\* ------------------------------------------------------------------------
\* scheduleNextBuffer
\* ------------------------------------------------------------------------
\* the unit created for one block: its onended hook is "eoq" (the hook of
\* the end-of-queue source), "plain" (only leaves the active set) or "null"
Source(audioData, hook, startTime, epoch) ==
  [buffer |-> audioData, onended |-> hook, start |-> startTime,
   dur |-> Duration(audioData), stopAt |-> -1, ended |-> FALSE,
   epoch |-> epoch]

\* the loop without lines 239-241: the previous end-of-queue source keeps
\* its hook
RECURSIVE ScheduleLoop_noDisarm(_, _, _)
ScheduleLoop_noDisarm(s, t, epoch) ==
  IF Len(s.audioQueue) > 0 /\ s.scheduledTime < t + SCHEDULE_AHEAD_TIME
  THEN LET audioData == Head(s.audioQueue)
           queue     == Tail(s.audioQueue)
           source    == Len(s.sources) + 1
           last      == Len(queue) = 0
           disarmed  == s.sources
           startTime == Max(s.scheduledTime, t)
           unit      == Source(audioData, IF last THEN "eoq" ELSE "plain",
                               startTime, epoch)
       IN  ScheduleLoop_noDisarm(
             [s EXCEPT !.audioQueue = queue,
                       !.sources = Append(disarmed, unit),
                       !.activeSources = @ \cup {source},
                       !.endOfQueueAudioSource = IF last THEN source ELSE @,
                       !.scheduledTime = startTime + unit.dur],
             t, epoch)
  ELSE s

\* the loop starting each unit at the cursor, also when it is in the past
RECURSIVE ScheduleLoop_atCursor(_, _, _)
ScheduleLoop_atCursor(s, t, epoch) ==
  IF Len(s.audioQueue) > 0 /\ s.scheduledTime < t + SCHEDULE_AHEAD_TIME
  THEN LET audioData == Head(s.audioQueue)
           queue     == Tail(s.audioQueue)
           source    == Len(s.sources) + 1
           last      == Len(queue) = 0
           disarmed  == IF last /\ s.endOfQueueAudioSource # NULL
                        THEN [s.sources EXCEPT
                                ![s.endOfQueueAudioSource].onended = "null"]
                        ELSE s.sources
           startTime == s.scheduledTime
           unit      == Source(audioData, IF last THEN "eoq" ELSE "plain",
                               startTime, epoch)
       IN  ScheduleLoop_atCursor(
             [s EXCEPT !.audioQueue = queue,
                       !.sources = Append(disarmed, unit),
                       !.activeSources = @ \cup {source},
                       !.endOfQueueAudioSource = IF last THEN source ELSE @,
                       !.scheduledTime = startTime + unit.dur],
             t, epoch)
  ELSE s

\* the loop scheduling every queued block, however far ahead the cursor is
RECURSIVE ScheduleLoop_noLookahead(_, _, _)
ScheduleLoop_noLookahead(s, t, epoch) ==
  IF Len(s.audioQueue) > 0
  THEN LET audioData == Head(s.audioQueue)
           queue     == Tail(s.audioQueue)
           source    == Len(s.sources) + 1
           last      == Len(queue) = 0
           disarmed  == IF last /\ s.endOfQueueAudioSource # NULL
                        THEN [s.sources EXCEPT
                                ![s.endOfQueueAudioSource].onended = "null"]
                        ELSE s.sources
           startTime == Max(s.scheduledTime, t)
           unit      == Source(audioData, IF last THEN "eoq" ELSE "plain",
                               startTime, epoch)
       IN  ScheduleLoop_noLookahead(
             [s EXCEPT !.audioQueue = queue,
                       !.sources = Append(disarmed, unit),
                       !.activeSources = @ \cup {source},
                       !.endOfQueueAudioSource = IF last THEN source ELSE @,
                       !.scheduledTime = startTime + unit.dur],
             t, epoch)
  ELSE s

\* the while loop of scheduleNextBuffer at device time t
RECURSIVE ScheduleLoop(_, _, _)
ScheduleLoop(s, t, epoch) ==
  IF Len(s.audioQueue) > 0 /\ s.scheduledTime < t + SCHEDULE_AHEAD_TIME
  THEN LET audioData == Head(s.audioQueue)
           queue     == Tail(s.audioQueue)
           source    == Len(s.sources) + 1
           last      == Len(queue) = 0
           disarmed  == IF last /\ s.endOfQueueAudioSource # NULL
                        THEN [s.sources EXCEPT
                                ![s.endOfQueueAudioSource].onended = "null"]
                        ELSE s.sources
           startTime == Max(s.scheduledTime, t)
           unit      == Source(audioData, IF last THEN "eoq" ELSE "plain",
                               startTime, epoch)
       IN  ScheduleLoop(
             [s EXCEPT !.audioQueue = queue,
                       !.sources = Append(disarmed, unit),
                       !.activeSources = @ \cup {source},
                       !.endOfQueueAudioSource = IF last THEN source ELSE @,
                       !.scheduledTime = startTime + unit.dur],
             t, epoch)
  ELSE s

\* scheduleNextBuffer without the one-shot timer of its last branch
AfterLoop_noTimeout(s, t) ==
  IF Len(s.audioQueue) = 0
  THEN IF s.isStreamComplete
       THEN IF s.checkInterval # NULL
            THEN [s EXCEPT !.isPlaying = FALSE,
                           !.intervals = ClearInterval(@, s.checkInterval),
                           !.checkInterval = NULL]
            ELSE [s EXCEPT !.isPlaying = FALSE]
       ELSE IF s.checkInterval = NULL
            THEN LET h == FreshHandle(s.intervals)
                 IN  [s EXCEPT !.checkInterval = h,
                               !.intervals = @ \cup
                                  {[id |-> h, due |-> t + CHECK_INTERVAL]}]
            ELSE s
  ELSE s

\* what follows the loop, arming the periodic recheck without looking at
\* checkInterval
AfterLoop_alwaysArms(s, t) ==
  IF Len(s.audioQueue) = 0
  THEN IF s.isStreamComplete
       THEN IF s.checkInterval # NULL
            THEN [s EXCEPT !.isPlaying = FALSE,
                           !.intervals = ClearInterval(@, s.checkInterval),
                           !.checkInterval = NULL]
            ELSE [s EXCEPT !.isPlaying = FALSE]
       ELSE LET h == FreshHandle(s.intervals)
            IN  [s EXCEPT !.checkInterval = h,
                          !.intervals = @ \cup
                             {[id |-> h, due |-> t + CHECK_INTERVAL]}]
  ELSE LET nextCheckTime == s.scheduledTime - t
       IN  [s EXCEPT !.timeouts =
              InsertSorted(@, t + Max(0, nextCheckTime - TIMEOUT_MARGIN))]

\* what follows the loop: stop the loop, arm the periodic recheck, or arm
\* a one-shot timer
AfterLoop(s, t) ==
  IF Len(s.audioQueue) = 0
  THEN IF s.isStreamComplete
       THEN IF s.checkInterval # NULL
            THEN [s EXCEPT !.isPlaying = FALSE,
                           !.intervals = ClearInterval(@, s.checkInterval),
                           !.checkInterval = NULL]
            ELSE [s EXCEPT !.isPlaying = FALSE]
       ELSE IF s.checkInterval = NULL
            THEN LET h == FreshHandle(s.intervals)
                 IN  [s EXCEPT !.checkInterval = h,
                               !.intervals = @ \cup
                                  {[id |-> h, due |-> t + CHECK_INTERVAL]}]
            ELSE s
  ELSE LET nextCheckTime == s.scheduledTime - t
       IN  [s EXCEPT !.timeouts =
              InsertSorted(@, t + Max(0, nextCheckTime - TIMEOUT_MARGIN))]

scheduleNextBuffer(s, t, epoch) == AfterLoop(ScheduleLoop(s, t, epoch), t)

\* ------------------------------------------------------------------------
\* The host: the callback, the clock, timers and end notifications
\* ------------------------------------------------------------------------
\* the units whose playback is not over at device time t: neither played
\* to their end nor force-stopped
Unfinished(srcs, t) ==
  {i \in 1..Len(srcs) : srcs[i].stopAt = -1 /\ t < srcs[i].start + srcs[i].dur}

\* this.onComplete(): the host's callback, recorded with what it can see
OnComplete(log, via, source, s, t) ==
  Append(log, [via |-> via, source |-> source,
               queueLength |-> Len(s.audioQueue),
               unfinished |-> Unfinished(s.sources, t),
               active |-> s.activeSources,
               streamComplete |-> s.isStreamComplete,
               marker |-> s.endOfQueueAudioSource,
               scheduled |-> Len(s.sources),
               pending |-> {i \in 1..Len(s.sources) : ~s.sources[i].ended},
               at |-> t, cycle |-> cycle,
               ncalls |-> IF via = "complete" THEN Len(calls) + 1
                          ELSE Len(calls)])

Epoch == CountOf(calls, "stop")

\* an end notification is due for a unit that played to its end or was
\* force-stopped, once
EndDue(i) ==
  /\ ~sources[i].ended
  /\ \/ sources[i].stopAt # -1
     \/ now >= sources[i].start + sources[i].dur

\* the clock moves on by one step, up to limit; timer callbacks and end
\* notifications that are due are delivered first
Elapse(step, limit) ==
  /\ now + step <= limit
  /\ resuming = 0
  /\ \A iv \in intervals : iv.due > now
  /\ \A k \in 1..Len(timeouts) : timeouts[k] > now
  /\ \A k \in 1..Len(padTimeouts) : padTimeouts[k] > now
  /\ \A i \in 1..Len(sources) : ~EndDue(i)
  /\ now' = now + step
  /\ UNCHANGED <<audioQueue, isPlaying, isStreamComplete, checkInterval,
                 scheduledTime, sources, activeSources, endOfQueueAudioSource,
                 intervals, timeouts, enq, fed, completions, calls, cycle>>
  /\ UNCHANGED <<graph, pad, resuming>>
  /\ UNCHANGED <<worklets, twin, bridge>>

Tick(limit) == Elapse(ClockStep, limit)

Advance == Tick(MaxTime)

\* ------------------------------------------------------------------------
\* addPCM16
\* ------------------------------------------------------------------------
\* addPCM16 that starts the loop without moving the cursor
addPCM16_keepsCursor(chunk) ==
  /\ Len(calls) < MaxCalls
  /\ CountOf(calls, "addPCM16") < MaxIngest
  /\ LET queue   == PushBlocks(audioQueue, _processPCM16Chunk(chunk))
         s0      == [This EXCEPT !.isStreamComplete = FALSE,
                                 !.audioQueue = queue]
         s1      == IF ~isPlaying
                    THEN scheduleNextBuffer(
                           [s0 EXCEPT !.isPlaying = TRUE],
                           now, Epoch)
                    ELSE s0
     IN  /\ Commit(s1)
         /\ enq' = Append(enq, SubSeq(queue, Len(audioQueue) + 1, Len(queue)))
         /\ cycle' = IF ~isPlaying THEN cycle + 1 ELSE cycle
  /\ fed' = Append(fed, chunk)
  /\ calls' = Append(calls, "addPCM16")
  /\ UNCHANGED <<now, completions>>
  /\ UNCHANGED <<graph, pad, resuming>>
  /\ UNCHANGED <<worklets, twin, bridge>>

\* addPCM16 that starts the loop without a first scheduling pass
addPCM16_noPass(chunk) ==
  /\ Len(calls) < MaxCalls
  /\ CountOf(calls, "addPCM16") < MaxIngest
  /\ LET queue   == PushBlocks(audioQueue, _processPCM16Chunk(chunk))
         s0      == [This EXCEPT !.isStreamComplete = FALSE,
                                 !.audioQueue = queue]
         s1      == IF ~isPlaying
                    THEN [s0 EXCEPT !.isPlaying = TRUE,
                                    !.scheduledTime = now + initialBufferTime]
                    ELSE s0
     IN  /\ Commit(s1)
         /\ enq' = Append(enq, SubSeq(queue, Len(audioQueue) + 1, Len(queue)))
         /\ cycle' = IF ~isPlaying THEN cycle + 1 ELSE cycle
  /\ fed' = Append(fed, chunk)
  /\ calls' = Append(calls, "addPCM16")
  /\ UNCHANGED <<now, completions>>
  /\ UNCHANGED <<graph, pad, resuming>>
  /\ UNCHANGED <<worklets, twin, bridge>>

addPCM16(chunk) ==
  /\ Len(calls) < MaxCalls
  /\ CountOf(calls, "addPCM16") < MaxIngest
  /\ LET queue   == PushBlocks(audioQueue, _processPCM16Chunk(chunk))
         s0      == [This EXCEPT !.isStreamComplete = FALSE,
                                 !.audioQueue = queue]
         s1      == IF ~isPlaying
                    THEN scheduleNextBuffer(
                           [s0 EXCEPT !.isPlaying = TRUE,
                                      !.scheduledTime = now + initialBufferTime],
                           now, Epoch)
                    ELSE s0
     IN  /\ Commit(s1)
         /\ enq' = Append(enq, SubSeq(queue, Len(audioQueue) + 1, Len(queue)))
         /\ cycle' = IF ~isPlaying THEN cycle + 1 ELSE cycle
  /\ fed' = Append(fed, chunk)
  /\ calls' = Append(calls, "addPCM16")
  /\ UNCHANGED <<now, completions>>
  /\ UNCHANGED <<graph, pad, resuming>>
  /\ UNCHANGED <<worklets, twin, bridge>>

\* ------------------------------------------------------------------------
\* Timer callbacks
\* ------------------------------------------------------------------------
\* the callback of the periodic recheck timer (lines 294-298)
IntervalFire ==
  \E iv \in intervals :
    /\ now >= iv.due
    /\ LET rearmed == (intervals \ {iv}) \cup
                        {[id |-> iv.id, due |-> now + CHECK_INTERVAL]}
           s0      == [This EXCEPT !.intervals = rearmed]
       IN  Commit(IF Len(audioQueue) > 0
                  THEN scheduleNextBuffer(s0, now, Epoch)
                  ELSE s0)
    /\ UNCHANGED <<now, enq, fed, completions, calls, cycle>>
    /\ UNCHANGED <<graph, pad, resuming>>
    /\ UNCHANGED <<worklets, twin, bridge>>

\* the callback of a one-shot timer (line 305)
TimeoutFire ==
  \E k \in 1..Len(timeouts) :
    /\ now >= timeouts[k]
    /\ Commit(scheduleNextBuffer(
                [This EXCEPT !.timeouts = RemoveAt(timeouts, k)], now, Epoch))
    /\ UNCHANGED <<now, enq, fed, completions, calls, cycle>>
    /\ UNCHANGED <<graph, pad, resuming>>
    /\ UNCHANGED <<worklets, twin, bridge>>

\* ------------------------------------------------------------------------
\* source.onended
\* ------------------------------------------------------------------------
\* the hook installed on an end-of-queue source fires the callback
EoqFires(s, i) ==
  Len(s.audioQueue) = 0 /\ s.endOfQueueAudioSource = i

Ended(i) ==
  /\ EndDue(i)
  /\ LET hook == sources[i].onended
         s0   == [This EXCEPT !.sources[i].ended = TRUE]
         s1   == IF hook = "null" THEN s0
                 ELSE [s0 EXCEPT !.activeSources = @ \ {i}]
         fire == hook = "eoq" /\ EoqFires(s1, i)
     IN  /\ Commit(IF fire THEN [s1 EXCEPT !.endOfQueueAudioSource = NULL]
                           ELSE s1)
         /\ completions' = IF fire
                            THEN OnComplete(completions, "onended", i, s1, now)
                            ELSE completions
  /\ UNCHANGED <<now, enq, fed, calls, cycle>>
  /\ UNCHANGED <<graph, pad, resuming>>
  /\ UNCHANGED <<worklets, twin, bridge>>

\* ------------------------------------------------------------------------
\* stop, resume, complete
\* ------------------------------------------------------------------------
\* source.stop() on a unit: its playback ends now unless it is already over
StopSource(src, t) ==
  IF src.stopAt = -1 /\ t < src.start + src.dur
  THEN [src EXCEPT !.stopAt = t]
  ELSE src

\* stop() without activeSources.clear()
stop_keepsActive ==
  /\ Len(calls) < MaxCalls
  /\ CountOf(calls, "stop") < MaxStop
  /\ Commit([This EXCEPT
        !.isPlaying = FALSE,
        !.isStreamComplete = TRUE,
        !.audioQueue = <<>>,
        !.sources = [i \in 1..Len(sources) |->
                       IF i \in activeSources
                       THEN StopSource(sources[i], now) ELSE sources[i]],
        !.scheduledTime = now,
        !.intervals = IF checkInterval # NULL
                      THEN ClearInterval(intervals, checkInterval) ELSE @,
        !.checkInterval = NULL])
  /\ calls' = Append(calls, "stop")
  /\ UNCHANGED <<now, enq, fed, completions, cycle>>
  /\ UNCHANGED <<graph, pad, resuming>>
  /\ UNCHANGED <<worklets, twin, bridge>>

\* stop() without clearInterval
stop_keepsInterval ==
  /\ Len(calls) < MaxCalls
  /\ CountOf(calls, "stop") < MaxStop
  /\ Commit([This EXCEPT
        !.isPlaying = FALSE,
        !.isStreamComplete = TRUE,
        !.audioQueue = <<>>,
        !.sources = [i \in 1..Len(sources) |->
                       IF i \in activeSources
                       THEN StopSource(sources[i], now) ELSE sources[i]],
        !.activeSources = {},
        !.scheduledTime = now,
        !.checkInterval = NULL])
  /\ calls' = Append(calls, "stop")
  /\ UNCHANGED <<now, enq, fed, completions, cycle>>
  /\ UNCHANGED <<graph, pad, resuming>>
  /\ UNCHANGED <<worklets, twin, bridge>>

\* stop() that also fades the pad out, as stopPad does
stop_stopsPad ==
  /\ Len(calls) < MaxCalls
  /\ CountOf(calls, "stop") < MaxStop
  /\ Commit([This EXCEPT
        !.isPlaying = FALSE,
        !.isStreamComplete = TRUE,
        !.audioQueue = <<>>,
        !.sources = [i \in 1..Len(sources) |->
                       IF i \in activeSources
                       THEN StopSource(sources[i], now) ELSE sources[i]],
        !.activeSources = {},
        !.scheduledTime = now,
        !.intervals = IF checkInterval # NULL
                      THEN ClearInterval(intervals, checkInterval) ELSE @,
        !.checkInterval = NULL])
  /\ calls' = Append(calls, "stop")
  /\ UNCHANGED <<now, enq, fed, completions, cycle>>
  /\ IF padGain = NoNode
     THEN UNCHANGED <<padGain, padTimeouts>>
     ELSE /\ padGain' = [padGain EXCEPT !.ramps =
                           Append(@, [value |-> 0,
                                      endTime |-> now + 2 * sampleRate])]
          /\ padTimeouts' = InsertSorted(padTimeouts, now + 2 * sampleRate)
  /\ UNCHANGED <<graph, padFilter, padOscillators, padCalls, resuming>>
  /\ UNCHANGED <<worklets, twin, bridge>>

\* stop() that leaves the queued blocks in the queue
stop_keepsQueue ==
  /\ Len(calls) < MaxCalls
  /\ CountOf(calls, "stop") < MaxStop
  /\ Commit([This EXCEPT
        !.isPlaying = FALSE,
        !.isStreamComplete = TRUE,
        !.sources = [i \in 1..Len(sources) |->
                       IF i \in activeSources
                       THEN StopSource(sources[i], now) ELSE sources[i]],
        !.activeSources = {},
        !.scheduledTime = now,
        !.intervals = IF checkInterval # NULL
                      THEN ClearInterval(intervals, checkInterval) ELSE @,
        !.checkInterval = NULL])
  /\ calls' = Append(calls, "stop")
  /\ UNCHANGED <<now, enq, fed, completions, cycle>>
  /\ UNCHANGED <<graph, pad, resuming>>
  /\ UNCHANGED <<worklets, twin, bridge>>

stop ==
  /\ Len(calls) < MaxCalls
  /\ CountOf(calls, "stop") < MaxStop
  /\ Commit([This EXCEPT
        !.isPlaying = FALSE,
        !.isStreamComplete = TRUE,
        !.audioQueue = <<>>,
        !.sources = [i \in 1..Len(sources) |->
                       IF i \in activeSources
                       THEN StopSource(sources[i], now) ELSE sources[i]],
        !.activeSources = {},
        !.scheduledTime = now,
        !.intervals = IF checkInterval # NULL
                      THEN ClearInterval(intervals, checkInterval) ELSE @,
        !.checkInterval = NULL])
  /\ calls' = Append(calls, "stop")
  /\ UNCHANGED <<now, enq, fed, completions, cycle>>
  /\ UNCHANGED <<graph, pad, resuming>>
  /\ UNCHANGED <<worklets, twin, bridge>>

\* resume() that resets the cursor to the current device time
Resumed_noLead(s, t) ==
  [s EXCEPT !.isStreamComplete = FALSE, !.scheduledTime = t]

\* the statements of resume() that follow the await, at device time t
Resumed(s, t) ==
  [s EXCEPT !.isStreamComplete = FALSE,
            !.scheduledTime = t + initialBufferTime]

\* resume(): with the context suspended the call waits for
\* context.resume() and its remaining statements run in ContextResumed;
\* whether the context is suspended is up to the host
resume ==
  /\ Len(calls) < MaxCalls
  /\ CountOf(calls, "resume") < MaxResume
  /\ \E suspended \in BOOLEAN :
       IF suspended
       THEN /\ Commit(This)
            /\ resuming' = resuming + 1
            /\ UNCHANGED gainNode
       ELSE /\ Commit(Resumed(This, now))
            /\ gainNode' = [gainNode EXCEPT !.gain = 1]
            /\ UNCHANGED resuming
  /\ calls' = Append(calls, "resume")
  /\ UNCHANGED <<now, enq, fed, completions, cycle>>
  /\ UNCHANGED <<keepAliveOscillator, pad, worklets, twin, bridge>>

\* the promise of context.resume() is fulfilled: the context runs again
\* and a waiting resume() goes on
ContextResumed ==
  /\ resuming > 0
  /\ resuming' = resuming - 1
  /\ Commit(Resumed(This, now))
  /\ gainNode' = [gainNode EXCEPT !.gain = 1]
  /\ UNCHANGED <<now, enq, fed, completions, calls, cycle>>
  /\ UNCHANGED <<keepAliveOscillator, pad, worklets, twin, bridge>>

\* complete() that only invokes the callback
complete_keepsFlag ==
  /\ Len(calls) < MaxCalls
  /\ CountOf(calls, "complete") < MaxComplete
  /\ Commit(This)
  /\ completions' = OnComplete(completions, "complete", NULL, This, now)
  /\ calls' = Append(calls, "complete")
  /\ UNCHANGED <<now, enq, fed, cycle>>
  /\ UNCHANGED <<graph, pad, resuming>>
  /\ UNCHANGED <<worklets, twin, bridge>>

complete ==
  /\ Len(calls) < MaxCalls
  /\ CountOf(calls, "complete") < MaxComplete
  /\ LET s1 == [This EXCEPT !.isStreamComplete = TRUE]
     IN  /\ Commit(s1)
         /\ completions' = OnComplete(completions, "complete", NULL, s1, now)
  /\ calls' = Append(calls, "complete")
  /\ UNCHANGED <<now, enq, fed, cycle>>
  /\ UNCHANGED <<graph, pad, resuming>>
  /\ UNCHANGED <<worklets, twin, bridge>>

\* ------------------------------------------------------------------------
\* The keep-alive oscillator and the ambient pad
\* ------------------------------------------------------------------------
\* the oscillator startKeepAlive leaves running (1 Hz sine)
KeepAlive == [type |-> "sine", frequency |-> 1, started |-> TRUE]

\* frequencies of the three pad oscillators, in hundredths of a hertz
PadFreqs == <<14683, 22000, 29366>>

\* durations of the pad, in sample periods: fade in and out (2 s), volume
\* ramp (0.5 s), teardown delay (2000 ms)
PAD_FADE == 2 * sampleRate

PAD_RAMP == sampleRate \div 2

PAD_TEARDOWN == 2 * sampleRate

\* gain.linearRampToValueAtTime(value, endTime)
Ramp(node, value, endTime) ==
  [node EXCEPT !.ramps = Append(@, [value |-> value, endTime |-> endTime])]

\* the three oscillators startPad creates, detune[k] being the random
\* detune of the k-th
PadOscs(detune) ==
  [k \in 1..Len(PadFreqs) |->
     [type |-> "triangle", frequency |-> PadFreqs[k], detune |-> detune[k],
      output |-> "padFilter", started |-> TRUE]]

setPadVolume(volume) ==
  /\ Len(padCalls) < MaxPadCalls
  /\ padGain' = IF padGain # NoNode
                THEN Ramp(padGain, volume, now + PAD_RAMP)
                ELSE padGain
  /\ padCalls' = Append(padCalls, "setPadVolume")
  /\ UNCHANGED <<padFilter, padOscillators, padTimeouts>>
  /\ UNCHANGED <<now, audioQueue, isPlaying, isStreamComplete, checkInterval,
                 scheduledTime, sources, activeSources, endOfQueueAudioSource,
                 intervals, timeouts, enq, fed, completions, calls, cycle>>
  /\ UNCHANGED <<graph, resuming>>
  /\ UNCHANGED <<worklets, twin, bridge>>

\* startPad() without its first line
startPad_noGuard(volume, detune) ==
  /\ Len(padCalls) < MaxPadCalls
  /\ padGain' = Ramp([gain |-> 0, ramps |-> <<>>, output |-> "gainNode"],
                     volume, now + PAD_FADE)
  /\ padFilter' = [type |-> "lowpass", frequency |-> 400, Q |-> 1,
                   output |-> "padGain"]
  /\ padOscillators' = padOscillators \o PadOscs(detune)
  /\ padCalls' = Append(padCalls, "startPad")
  /\ UNCHANGED padTimeouts
  /\ UNCHANGED <<now, audioQueue, isPlaying, isStreamComplete, checkInterval,
                 scheduledTime, sources, activeSources, endOfQueueAudioSource,
                 intervals, timeouts, enq, fed, completions, calls, cycle>>
  /\ UNCHANGED <<graph, resuming>>
  /\ UNCHANGED <<worklets, twin, bridge>>

startPad(volume, detune) ==
  /\ Len(padCalls) < MaxPadCalls
  /\ IF padGain # NoNode
     THEN UNCHANGED <<padGain, padFilter, padOscillators>>
     ELSE /\ padGain' = Ramp([gain |-> 0, ramps |-> <<>>,
                              output |-> "gainNode"],
                             volume, now + PAD_FADE)
          /\ padFilter' = [type |-> "lowpass", frequency |-> 400, Q |-> 1,
                           output |-> "padGain"]
          /\ padOscillators' = padOscillators \o PadOscs(detune)
  /\ padCalls' = Append(padCalls, "startPad")
  /\ UNCHANGED padTimeouts
  /\ UNCHANGED <<now, audioQueue, isPlaying, isStreamComplete, checkInterval,
                 scheduledTime, sources, activeSources, endOfQueueAudioSource,
                 intervals, timeouts, enq, fed, completions, calls, cycle>>
  /\ UNCHANGED <<graph, resuming>>
  /\ UNCHANGED <<worklets, twin, bridge>>

stopPad ==
  /\ Len(padCalls) < MaxPadCalls
  /\ IF padGain = NoNode
     THEN UNCHANGED <<padGain, padTimeouts>>
     ELSE /\ padGain' = Ramp(padGain, 0, now + PAD_FADE)
          /\ padTimeouts' = InsertSorted(padTimeouts, now + PAD_TEARDOWN)
  /\ padCalls' = Append(padCalls, "stopPad")
  /\ UNCHANGED <<padFilter, padOscillators>>
  /\ UNCHANGED <<now, audioQueue, isPlaying, isStreamComplete, checkInterval,
                 scheduledTime, sources, activeSources, endOfQueueAudioSource,
                 intervals, timeouts, enq, fed, completions, calls, cycle>>
  /\ UNCHANGED <<graph, resuming>>
  /\ UNCHANGED <<worklets, twin, bridge>>

\* the teardown callback without the reset of the oscillator list
PadTeardown_keepsOscillators ==
  \E k \in 1..Len(padTimeouts) :
    /\ now >= padTimeouts[k]
    /\ padTimeouts' = RemoveAt(padTimeouts, k)
    /\ padOscillators' = [j \in 1..Len(padOscillators) |->
                            [padOscillators[j] EXCEPT !.started = FALSE]]
    /\ padGain' = NoNode
    /\ padFilter' = NoNode
    /\ UNCHANGED padCalls
    /\ UNCHANGED <<now, audioQueue, isPlaying, isStreamComplete, checkInterval,
                   scheduledTime, sources, activeSources,
                   endOfQueueAudioSource, intervals, timeouts, enq, fed,
                   completions, calls, cycle>>
    /\ UNCHANGED <<graph, resuming>>
    /\ UNCHANGED <<worklets, twin, bridge>>

\* the callback of the timer armed by stopPad (lines 139-146)
PadTeardown ==
  \E k \in 1..Len(padTimeouts) :
    /\ now >= padTimeouts[k]
    /\ padTimeouts' = RemoveAt(padTimeouts, k)
    /\ padOscillators' = <<>>
    /\ padGain' = NoNode
    /\ padFilter' = NoNode
    /\ UNCHANGED padCalls
    /\ UNCHANGED <<now, audioQueue, isPlaying, isStreamComplete, checkInterval,
                   scheduledTime, sources, activeSources,
                   endOfQueueAudioSource, intervals, timeouts, enq, fed,
                   completions, calls, cycle>>
    /\ UNCHANGED <<graph, resuming>>
    /\ UNCHANGED <<worklets, twin, bridge>>

\* ------------------------------------------------------------------------
\* Post-processing taps (worklets)
\* ------------------------------------------------------------------------
\* names of worklets and identities of handlers given to addWorklet
WorkletNames == {"vumeter", "recorder"}

Handlers == {1, 2}

MaxWorkletCalls == 3

\* workletsRecord[workletName] when the name has no entry
NoGraph == [exists |-> FALSE, handlers |-> <<>>, node |-> NoNode]

\* the registry before anything was registered for this.context:
\* registeredWorklets.get(this.context) is undefined
EmptyRegistry ==
  [present |-> FALSE, graphs |-> [n \in WorkletNames |-> NoGraph]]

\* new AudioWorkletNode(this.context, workletName), the serial-th node made
WorkletNode(workletName, serial) ==
  [type |-> "worklet", name |-> workletName, serial |-> serial]

\* addWorklet that does not look for an existing entry
addWorklet_noLookup(workletName, handler) ==
  /\ Len(workletCalls) < MaxWorkletCalls
  /\ registeredWorklets' =
       [present |-> TRUE,
        graphs |-> [registeredWorklets.graphs EXCEPT ![workletName] =
                      [exists |-> TRUE, handlers |-> <<handler>>,
                       node |-> NoNode]]]
  /\ loading' = Append(loading, workletName)
  /\ workletCalls' =
       Append(workletCalls,
              [name |-> workletName, handler |-> handler,
               loading |-> \E k \in 1..Len(loading) :
                             loading[k] = workletName])
  /\ UNCHANGED workletNodes
  /\ UNCHANGED <<now, audioQueue, isPlaying, isStreamComplete, checkInterval,
                 scheduledTime, sources, activeSources, endOfQueueAudioSource,
                 intervals, timeouts, enq, fed, completions, calls, cycle>>
  /\ UNCHANGED <<graph, pad, resuming>>
  /\ UNCHANGED <<twin, bridge>>

\* addWorklet up to its await (lines 150-173): an existing entry gets the
\* handler; otherwise the entry is created and the module is requested
addWorklet(workletName, handler) ==
  /\ Len(workletCalls) < MaxWorkletCalls
  /\ IF registeredWorklets.present
        /\ registeredWorklets.graphs[workletName].exists
     THEN /\ registeredWorklets' =
               [registeredWorklets EXCEPT
                  !.graphs[workletName].handlers = Append(@, handler)]
          /\ UNCHANGED loading
     ELSE /\ registeredWorklets' =
               [present |-> TRUE,
                graphs |-> [registeredWorklets.graphs EXCEPT ![workletName] =
                              [exists |-> TRUE, handlers |-> <<handler>>,
                               node |-> NoNode]]]
          /\ loading' = Append(loading, workletName)
  /\ workletCalls' =
       Append(workletCalls,
              [name |-> workletName, handler |-> handler,
               loading |-> \E k \in 1..Len(loading) :
                             loading[k] = workletName])
  /\ UNCHANGED workletNodes
  /\ UNCHANGED <<now, audioQueue, isPlaying, isStreamComplete, checkInterval,
                 scheduledTime, sources, activeSources, endOfQueueAudioSource,
                 intervals, timeouts, enq, fed, completions, calls, cycle>>
  /\ UNCHANGED <<graph, pad, resuming>>
  /\ UNCHANGED <<twin, bridge>>

\* audioWorklet.addModule is fulfilled and addWorklet goes on (lines
\* 174-179): the node is constructed and put into the entry
ModuleAdded ==
  \E k \in 1..Len(loading) :
    LET workletName == loading[k]
        worklet == WorkletNode(workletName, Len(workletNodes) + 1)
    IN  /\ loading' = RemoveAt(loading, k)
        /\ workletNodes' = Append(workletNodes, worklet)
        /\ registeredWorklets' =
             [registeredWorklets EXCEPT !.graphs[workletName].node = worklet]
        /\ UNCHANGED workletCalls
        /\ UNCHANGED <<now, audioQueue, isPlaying, isStreamComplete,
                       checkInterval, scheduledTime, sources, activeSources,
                       endOfQueueAudioSource, intervals, timeouts, enq, fed,
                       completions, calls, cycle>>
        /\ UNCHANGED <<graph, pad, resuming>>
        /\ UNCHANGED <<twin, bridge>>

\* audioWorklet.addModule is rejected, or the constructor of the node
\* throws: the promise of addWorklet is rejected and the entry stays
\* without a node
ModuleFailed ==
  \E k \in 1..Len(loading) :
    /\ loading' = RemoveAt(loading, k)
    /\ UNCHANGED <<registeredWorklets, workletCalls, workletNodes>>
    /\ UNCHANGED <<now, audioQueue, isPlaying, isStreamComplete,
                   checkInterval, scheduledTime, sources, activeSources,
                   endOfQueueAudioSource, intervals, timeouts, enq, fed,
                   completions, calls, cycle>>
    /\ UNCHANGED <<graph, pad, resuming>>
    /\ UNCHANGED <<twin, bridge>>

\* ------------------------------------------------------------------------
\* Two streamers side by side
\* ------------------------------------------------------------------------
\* The methods and callbacks as functions of the object they run on, so
\* that the same call or host event can be given to two streamers.  An
\* object o has the fields of This, the log of its onComplete callback and
\* its keepAliveOscillator.

\* this streamer as such an object
Self ==
  [audioQueue |-> audioQueue, isPlaying |-> isPlaying,
   isStreamComplete |-> isStreamComplete, checkInterval |-> checkInterval,
   scheduledTime |-> scheduledTime, sources |-> sources,
   activeSources |-> activeSources,
   endOfQueueAudioSource |-> endOfQueueAudioSource,
   intervals |-> intervals, timeouts |-> timeouts,
   completions |-> completions,
   keepAliveOscillator |-> keepAliveOscillator]

\* the object the constructor leaves (lines 27-63), keepAlive being what
\* startKeepAlive recorded: the oscillator, or nothing when its try block
\* threw (lines 66-84)
Constructed(keepAlive) ==
  [audioQueue |-> <<>>, isPlaying |-> FALSE, isStreamComplete |-> FALSE,
   checkInterval |-> NULL, scheduledTime |-> 0, sources |-> <<>>,
   activeSources |-> {}, endOfQueueAudioSource |-> NULL,
   intervals |-> {}, timeouts |-> <<>>, completions |-> <<>>,
   keepAliveOscillator |-> keepAlive]

\* addPCM16 that does nothing on a streamer without keep-alive oscillator
addPCM16_on_needsKeepAlive(o, chunk, t, epoch) ==
  IF o.keepAliveOscillator = NoNode THEN o
  ELSE
  LET queue == PushBlocks(o.audioQueue, _processPCM16Chunk(chunk))
      s0    == [o EXCEPT !.isStreamComplete = FALSE, !.audioQueue = queue]
  IN  IF ~o.isPlaying
      THEN scheduleNextBuffer(
             [s0 EXCEPT !.isPlaying = TRUE,
                        !.scheduledTime = t + initialBufferTime],
             t, epoch)
      ELSE s0

\* addPCM16(chunk) on o at device time t (lines 196-212)
addPCM16_on(o, chunk, t, epoch) ==
  LET queue == PushBlocks(o.audioQueue, _processPCM16Chunk(chunk))
      s0    == [o EXCEPT !.isStreamComplete = FALSE, !.audioQueue = queue]
  IN  IF ~o.isPlaying
      THEN scheduleNextBuffer(
             [s0 EXCEPT !.isPlaying = TRUE,
                        !.scheduledTime = t + initialBufferTime],
             t, epoch)
      ELSE s0

\* the callback of the periodic timer with handle id on o (lines 294-298)
interval_on(o, id, t, epoch) ==
  LET s0 == [o EXCEPT !.intervals =
               {iv \in @ : iv.id # id}
                 \cup {[id |-> id, due |-> t + CHECK_INTERVAL]}]
  IN  IF Len(o.audioQueue) > 0 THEN scheduleNextBuffer(s0, t, epoch) ELSE s0

\* the callback of the k-th pending one-shot timer on o (line 305)
timeout_on(o, k, t, epoch) ==
  scheduleNextBuffer([o EXCEPT !.timeouts = RemoveAt(@, k)], t, epoch)

\* the end notification of unit i on o (lines 243-257)
onended_on(o, i, t) ==
  LET hook == o.sources[i].onended
      s0   == [o EXCEPT !.sources[i].ended = TRUE]
      s1   == IF hook = "null" THEN s0
              ELSE [s0 EXCEPT !.activeSources = @ \ {i}]
  IN  IF hook = "eoq" /\ EoqFires(s1, i)
      THEN [s1 EXCEPT !.endOfQueueAudioSource = NULL,
                      !.completions = OnComplete(@, "onended", i, s1, t)]
      ELSE s1

\* stop() on o (lines 311-338)
stop_on(o, t) ==
  [o EXCEPT
     !.isPlaying = FALSE,
     !.isStreamComplete = TRUE,
     !.audioQueue = <<>>,
     !.sources = [i \in 1..Len(o.sources) |->
                    IF i \in o.activeSources
                    THEN StopSource(o.sources[i], t) ELSE o.sources[i]],
     !.activeSources = {},
     !.scheduledTime = t,
     !.intervals = IF o.checkInterval # NULL
                   THEN ClearInterval(@, o.checkInterval) ELSE @,
     !.checkInterval = NULL]

\* complete() on o (lines 349-352)
complete_on(o, t) ==
  LET s1 == [o EXCEPT !.isStreamComplete = TRUE]
  IN  [s1 EXCEPT !.completions = OnComplete(@, "complete", NULL, s1, t)]

\* the same call or event on this streamer and on the twin
MaxBothCalls == 4

MaxBothIngest == 2

Both(o1, o2) ==
  /\ Commit(o1)
  /\ completions' = o1.completions
  /\ twin' = o2
  /\ UNCHANGED <<keepAliveOscillator, pad, worklets, bridge>>

BothAddPCM16(chunk) ==
  /\ Len(calls) < MaxBothCalls
  /\ CountOf(calls, "addPCM16") < MaxBothIngest
  /\ Both(addPCM16_on(Self, chunk, now, Epoch),
          addPCM16_on(twin, chunk, now, Epoch))
  /\ enq' = Append(enq, PushBlocks(<<>>, _processPCM16Chunk(chunk)))
  /\ cycle' = IF ~isPlaying THEN cycle + 1 ELSE cycle
  /\ fed' = Append(fed, chunk)
  /\ calls' = Append(calls, "addPCM16")
  /\ UNCHANGED <<now, gainNode, resuming>>

BothStop ==
  /\ Len(calls) < MaxBothCalls
  /\ CountOf(calls, "stop") < MaxStop
  /\ Both(stop_on(Self, now), stop_on(twin, now))
  /\ calls' = Append(calls, "stop")
  /\ UNCHANGED <<now, enq, fed, cycle, gainNode, resuming>>

BothResume ==
  /\ Len(calls) < MaxBothCalls
  /\ CountOf(calls, "resume") < MaxResume
  /\ \E suspended \in BOOLEAN :
       IF suspended
       THEN /\ Both(Self, twin)
            /\ resuming' = resuming + 1
            /\ UNCHANGED gainNode
       ELSE /\ Both(Resumed(Self, now), Resumed(twin, now))
            /\ gainNode' = [gainNode EXCEPT !.gain = 1]
            /\ UNCHANGED resuming
  /\ calls' = Append(calls, "resume")
  /\ UNCHANGED <<now, enq, fed, cycle>>

BothContextResumed ==
  /\ resuming > 0
  /\ resuming' = resuming - 1
  /\ Both(Resumed(Self, now), Resumed(twin, now))
  /\ gainNode' = [gainNode EXCEPT !.gain = 1]
  /\ UNCHANGED <<now, enq, fed, calls, cycle>>

BothComplete ==
  /\ Len(calls) < MaxBothCalls
  /\ CountOf(calls, "complete") < MaxComplete
  /\ Both(complete_on(Self, now), complete_on(twin, now))
  /\ calls' = Append(calls, "complete")
  /\ UNCHANGED <<now, enq, fed, cycle, gainNode, resuming>>

BothIntervalFire ==
  \E iv \in intervals :
    /\ now >= iv.due
    /\ Both(interval_on(Self, iv.id, now, Epoch),
            interval_on(twin, iv.id, now, Epoch))
    /\ UNCHANGED <<now, enq, fed, calls, cycle, gainNode, resuming>>

BothTimeoutFire ==
  \E k \in 1..Len(timeouts) :
    /\ now >= timeouts[k]
    /\ Both(timeout_on(Self, k, now, Epoch), timeout_on(twin, k, now, Epoch))
    /\ UNCHANGED <<now, enq, fed, calls, cycle, gainNode, resuming>>

BothEnded ==
  \E i \in 1..Len(sources) :
    /\ EndDue(i)
    /\ Both(onended_on(Self, i, now), onended_on(twin, i, now))
    /\ UNCHANGED <<now, enq, fed, calls, cycle, gainNode, resuming>>

\* ------------------------------------------------------------------------
\* DatabaseBridge (src/components/DatabaseBridge.tsx, lines 1-234)
\* ------------------------------------------------------------------------
\* A text is the sequence of its sentences as the sentence segmenter gives
\* them, each by its length after trim(): <<>> is null or the empty
\* string, <<0>> a text of white space only.
MaxEffects == 2
MaxWrites == 2
MaxDeliveries == 3
MaxPending == 2

\* everything of the audio streamer
audio == <<now, audioQueue, isPlaying, isStreamComplete, checkInterval,
           scheduledTime, sources, activeSources, endOfQueueAudioSource,
           intervals, timeouts, enq, fed, completions, calls, cycle, graph,
           pad, resuming, worklets, twin>>

NoRow == [id |-> NULL, translated_text |-> <<>>, source_text |-> <<>>]

\* thresholds of segmentText (line 59): characters of a chunk of at least
\* two sentences, characters of any chunk, sentences of a chunk
CHUNK_CHARS_2 == 150
CHUNK_CHARS == 250
CHUNK_SENTENCES == 3

\* the loop of segmentText over the sentences from the i-th on (lines
\* 47-69): first, length and count describe currentChunk
RECURSIVE ChunkLoop(_, _, _, _, _, _)
ChunkLoop(sentences, i, first, length, count, chunks) ==
  IF i > Len(sentences)
  THEN IF length > 0
       THEN Append(chunks, [first |-> first, last |-> Len(sentences),
                            length |-> length])
       ELSE chunks
  ELSE IF sentences[i] = 0
  THEN ChunkLoop(sentences, i + 1, first, length, count, chunks)
  ELSE LET length1 == (IF length > 0 THEN length + 1 ELSE 0) + sentences[i]
           first1  == IF length > 0 THEN first ELSE i
           count1  == count + 1
       IN  IF \/ count1 >= 2 /\ length1 > CHUNK_CHARS_2
              \/ count1 >= CHUNK_SENTENCES
              \/ length1 > CHUNK_CHARS
           THEN ChunkLoop(sentences, i + 1, 0, 0, 0,
                          Append(chunks, [first |-> first1, last |-> i,
                                          length |-> length1]))
           ELSE ChunkLoop(sentences, i + 1, first1, length1, count1, chunks)

\* segmentText(text) (lines 20-71)
segmentText(text) ==
  IF text = <<>> THEN <<>> ELSE ChunkLoop(text, 1, 0, 0, 0, <<>>)

\* text.trim().length > 0
TrimNonEmpty(text) == \E i \in 1..Len(text) : text[i] > 0

\* the text processNewData reads (lines 163-165)
TextToRead(data) ==
  IF data.translated_text # <<>> /\ TrimNonEmpty(data.translated_text)
  THEN data.translated_text
  ELSE data.source_text

\* the strings pushed for the record by the n-th call of processNewData
Segments(data, n) ==
  LET chunks == segmentText(TextToRead(data))
  IN  [j \in 1..Len(chunks) |->
         [id |-> data.id, call |-> n, part |-> j,
          length |-> chunks[j].length]]

\* scriptedText (lines 110-116) and the test of line 119
Scripted(rawText, style) == [style |-> style, raw |-> rawText]

BlankScript(scriptedText) ==
  scriptedText.style = "natural" /\ scriptedText.raw.length = 0

\* the refs and the host state the consumer works on
Bridge ==
  [queueRef |-> queueRef, isProcessingRef |-> isProcessingRef,
   lastProcessedIdRef |-> lastProcessedIdRef, loops |-> loops,
   sent |-> sent]

CommitBridge(b) ==
  /\ queueRef' = b.queueRef
  /\ isProcessingRef' = b.isProcessingRef
  /\ lastProcessedIdRef' = b.lastProcessedIdRef
  /\ loops' = b.loops
  /\ sent' = b.sent

\* the while loop of processQueueLoop from its condition to the await of
\* line 153 or to the finally block (lines 105-157), in the invocation made
\* by effect run e; outcome says whether client.send returns or throws
RECURSIVE WhileLoop(_, _, _, _)
WhileLoop(b, e, style, outcome) ==
  IF Len(b.queueRef) > 0
  THEN LET rawText      == Head(b.queueRef)
           scriptedText == Scripted(rawText, style)
       IN  IF BlankScript(scriptedText)
           THEN WhileLoop([b EXCEPT !.queueRef = Tail(@)], e, style, outcome)
           ELSE IF outcome = "throws"
           THEN [b EXCEPT !.isProcessingRef = FALSE]
           ELSE [b EXCEPT !.sent = Append(@, [text |-> scriptedText,
                                              client |-> e]),
                          !.queueRef = Tail(@),
                          !.loops = Append(@, e)]
  ELSE [b EXCEPT !.isProcessingRef = FALSE]

\* processQueueLoop() (lines 99-158) up to its first await or its return
processQueueLoop(b, e, style, outcome) ==
  IF b.isProcessingRef THEN b
  ELSE WhileLoop([b EXCEPT !.isProcessingRef = TRUE], e, style, outcome)

\* processNewData(data) (lines 160-186) of effect run e, its n-th call
processNewData(b, data, e, n, style, outcome) ==
  IF TextToRead(data) = <<>> THEN b
  ELSE IF b.lastProcessedIdRef = data.id THEN b
  ELSE LET b1       == [b EXCEPT !.lastProcessedIdRef = data.id]
           segments == Segments(data, n)
       IN  IF Len(segments) > 0
           THEN processQueueLoop([b1 EXCEPT !.queueRef = @ \o segments],
                                 e, style, outcome)
           ELSE b1

Styles == {"natural", "breathy"}

SendOutcomes == {"returns", "throws"}

\* a call of processNewData(data) by a callback of effect run e
Deliver(data, e) ==
  /\ Len(deliveries) < MaxDeliveries
  /\ \E style \in Styles, outcome \in SendOutcomes :
       LET n  == Len(deliveries) + 1
           b1 == processNewData(Bridge, data, e, n, style, outcome)
       IN  /\ CommitBridge(b1)
           /\ deliveries' =
                Append(deliveries,
                       [data |-> data, last |-> lastProcessedIdRef,
                        lastAfter |-> b1.lastProcessedIdRef,
                        enqueued |->
                          LET all == [i \in 1..(Len(b1.sent) - Len(sent)) |->
                                        b1.sent[Len(sent) + i].text.raw]
                                     \o b1.queueRef
                          IN  SubSeq(all, Len(queueRef) + 1, Len(all))])

\* the ingestion effect runs (lines 91-231): the cleanup of the previous
\* run, then the body with the prop connected = c
RunEffect(c) ==
  /\ effect < MaxEffects
  /\ effect' = effect + 1
  /\ connected' = c
  /\ queueRef' = <<>>
  /\ isProcessingRef' = FALSE
  /\ subscribed' = c
  /\ events' = <<>>
  /\ fetches' = IF c THEN Append(fetches, effect + 1) ELSE fetches
  /\ UNCHANGED <<lastProcessedIdRef, loops, table, writes, sent, deliveries>>
  /\ UNCHANGED audio

\* the worker posts its tick (lines 204-206)
WorkerTick ==
  /\ subscribed
  /\ Len(fetches) < MaxPending
  /\ fetches' = Append(fetches, effect)
  /\ UNCHANGED <<connected, queueRef, isProcessingRef, lastProcessedIdRef,
                 effect, subscribed, events, loops, table, writes, sent,
                 deliveries>>
  /\ UNCHANGED audio

\* a row is written to eburon_tts_current; a live channel is notified
RowWrite(row) ==
  /\ writes < MaxWrites
  /\ writes' = writes + 1
  /\ table' = row
  /\ events' = IF subscribed THEN Append(events, row) ELSE events
  /\ UNCHANGED <<connected, queueRef, isProcessingRef, lastProcessedIdRef,
                 effect, subscribed, fetches, loops, sent, deliveries>>
  /\ UNCHANGED audio

\* the realtime callback (lines 212-219)
Realtime ==
  /\ events # <<>>
  /\ events' = Tail(events)
  /\ Deliver(Head(events), effect)
  /\ UNCHANGED <<connected, effect, subscribed, fetches, table, writes>>
  /\ UNCHANGED audio

\* the query of a fetchLatest call comes back (lines 188-199), with an
\* error or with the latest row
FetchResolved ==
  \E k \in 1..Len(fetches), error \in BOOLEAN :
    /\ fetches' = RemoveAt(fetches, k)
    /\ IF ~error /\ table # NoRow
       THEN Deliver(table, fetches[k])
       ELSE UNCHANGED <<queueRef, isProcessingRef, lastProcessedIdRef, loops,
                        sent, deliveries>>
    /\ UNCHANGED <<connected, effect, subscribed, events, table, writes>>
    /\ UNCHANGED audio

\* the timer of line 153 fires and the loop goes on
LoopWakes ==
  \E k \in 1..Len(loops), style \in Styles, outcome \in SendOutcomes :
    /\ CommitBridge(WhileLoop([Bridge EXCEPT !.loops = RemoveAt(@, k)],
                              loops[k], style, outcome))
    /\ UNCHANGED <<connected, effect, subscribed, fetches, events, table,
                   writes, deliveries>>
    /\ UNCHANGED audio

\* ------------------------------------------------------------------------
\* Specification
\* ------------------------------------------------------------------------
\* byte lengths of the buffers given to addPCM16: empty, 9 samples, one
\* full block, two full blocks and 9 samples
ChunkLengths == {0, 18, 2 * bufferSize, 4 * bufferSize + 18}

Seeds == {3}

Init ==
  /\ now = 0
  /\ audioQueue = <<>>
  /\ isPlaying = FALSE
  /\ isStreamComplete = FALSE
  /\ checkInterval = NULL
  /\ scheduledTime = 0
  /\ sources = <<>>
  /\ activeSources = {}
  /\ endOfQueueAudioSource = NULL
  /\ intervals = {}
  /\ timeouts = <<>>
  /\ enq = <<>>
  /\ fed = <<>>
  /\ completions = <<>>
  /\ calls = <<>>
  /\ cycle = 0
  /\ gainNode = [gain |-> 1, destination |-> TRUE]
  /\ keepAliveOscillator \in {NoNode, KeepAlive}
  /\ padGain = NoNode
  /\ padFilter = NoNode
  /\ padOscillators = <<>>
  /\ padTimeouts = <<>>
  /\ resuming = 0
  /\ padCalls = <<>>
  /\ registeredWorklets = EmptyRegistry
  /\ loading = <<>>
  /\ workletCalls = <<>>
  /\ workletNodes = <<>>
  /\ twin = Constructed(IF keepAliveOscillator = KeepAlive
                        THEN NoNode ELSE KeepAlive)
  /\ connected = FALSE
  /\ queueRef = <<>>
  /\ isProcessingRef = FALSE
  /\ lastProcessedIdRef = NULL
  /\ effect = 0
  /\ subscribed = FALSE
  /\ fetches = <<>>
  /\ events = <<>>
  /\ loops = <<>>
  /\ table = NoRow
  /\ writes = 0
  /\ sent = <<>>
  /\ deliveries = <<>>

Ingest ==
  \E n \in ChunkLengths, seed \in Seeds :
    addPCM16(Chunk(Len(fed) + 1, seed, n))

EndNotification == \E i \in 1..Len(sources) : Ended(i)

Next ==
  \/ Ingest
  \/ stop
  \/ resume
  \/ complete
  \/ ContextResumed
  \/ IntervalFire
  \/ TimeoutFire
  \/ EndNotification
  \/ Advance

\* the state after a construction in which startKeepAlive succeeded; no
\* method of the streamer reads keepAliveOscillator
Started == Init /\ keepAliveOscillator = KeepAlive

Spec == Started /\ [][Next]_vars

\* addPCM16 alone, on buffers of more lengths and contents: byte lengths
\* around zero, one and two blocks
IngestLengths ==
  {0, 18, 2 * bufferSize - 2, 2 * bufferSize, 2 * bufferSize + 2,
   4 * bufferSize + 18}

IngestSeeds == {3, 200}

MaxFeeds == 2

IngestOnly ==
  /\ Len(fed) < MaxFeeds
  /\ \E n \in IngestLengths, seed \in IngestSeeds :
       addPCM16(Chunk(Len(fed) + 1, seed, n))

SpecIngest == Started /\ [][IngestOnly]_vars

\* The streamer with the public methods called only up to LiveCallsUntil
\* and the clock running long enough afterwards to play everything that was
\* queued; pending timer callbacks and end notifications are eventually
\* delivered and the device clock advances.
LiveCallsUntil == 4800

LiveChunkLengths == {18, 4 * bufferSize}

LiveMaxTime ==
  LiveCallsUntil + initialBufferTime + 4 * ClockStep
    + MaxIngest * 2 * (bufferSize + ClockStep)

LiveIngest ==
  /\ now <= LiveCallsUntil
  /\ \E n \in LiveChunkLengths, seed \in Seeds :
       addPCM16(Chunk(Len(fed) + 1, seed, n))

LiveStop == now <= LiveCallsUntil /\ stop

LiveResume == now <= LiveCallsUntil /\ resume

LiveComplete == now <= LiveCallsUntil /\ complete

LiveAdvance == Tick(LiveMaxTime)

LiveNext ==
  \/ LiveIngest
  \/ LiveStop
  \/ LiveResume
  \/ LiveComplete
  \/ ContextResumed
  \/ IntervalFire
  \/ TimeoutFire
  \/ EndNotification
  \/ LiveAdvance

LiveSpec ==
  /\ Started
  /\ [][LiveNext]_vars
  /\ WF_vars(ContextResumed)
  /\ WF_vars(IntervalFire)
  /\ WF_vars(TimeoutFire)
  /\ WF_vars(EndNotification)
  /\ WF_vars(LiveAdvance)

\* The streamer with its ambient pad: the pad methods, the teardown timer,
\* one ingest and stop(), on a clock that moves in steps of two seconds
Detunes == {<<-5, 0, 4>>, <<4, -5, 0>>}

\* volumes in tenths: the one startPad fades in to, the one setPadVolume
\* ramps to
Volumes == {3}

NewVolumes == {1}

\* two full blocks: the first pass leaves one queued and arms a one-shot
\* timer
PadChunkLengths == {4 * bufferSize}

PadStart == \E volume \in Volumes, detune \in Detunes :
              startPad(volume, detune)

PadSetVolume == \E volume \in NewVolumes : setPadVolume(volume)

PadIngest ==
  /\ Len(fed) < MaxPadIngest
  /\ \E n \in PadChunkLengths, seed \in Seeds :
       addPCM16(Chunk(Len(fed) + 1, seed, n))

PadAdvance == Elapse(PadClockStep, PadMaxTime)

PadNext ==
  \/ PadStart
  \/ PadSetVolume
  \/ stopPad
  \/ PadTeardown
  \/ PadIngest
  \/ stop
  \/ IntervalFire
  \/ TimeoutFire
  \/ EndNotification
  \/ PadAdvance

SpecPad == Init /\ [][PadNext]_vars

\* The taps: addWorklet on two names with two handlers, each module load
\* ending either way
AttachWorklet ==
  \E workletName \in WorkletNames, handler \in Handlers :
    addWorklet(workletName, handler)

WorkletNext ==
  \/ AttachWorklet
  \/ ModuleAdded
  \/ ModuleFailed

SpecWorklet == Init /\ [][WorkletNext]_vars

\* Two streamers, one constructed with and one without a running
\* keep-alive oscillator, given the same calls, timer callbacks and end
\* notifications at the same device times
BothChunkLengths == {4 * bufferSize + 18}

BothIngest ==
  \E n \in BothChunkLengths, seed \in Seeds :
    BothAddPCM16(Chunk(Len(fed) + 1, seed, n))

BothNext ==
  \/ BothIngest
  \/ BothStop
  \/ BothResume
  \/ BothComplete
  \/ BothContextResumed
  \/ BothIntervalFire
  \/ BothTimeoutFire
  \/ BothEnded
  \/ Advance

SpecKeepAlive == Init /\ [][BothNext]_vars

\* The database bridge: effect runs with the prop either way, worker
\* ticks, rows written by others, realtime payloads, query results and the
\* wake-ups of sleeping consumer loops, in any order
Sentence == 40

\* rows: source text of four sentences (two segments); a translation of
\* two long sentences; white space only; no text; the first row's id again
\* with other text
Rows ==
  { [id |-> 1, translated_text |-> <<>>,
     source_text |-> <<Sentence, Sentence, Sentence, Sentence>>],
    [id |-> 2, translated_text |-> <<100, 60>>, source_text |-> <<Sentence>>],
    [id |-> 3, translated_text |-> <<0>>, source_text |-> <<0>>],
    [id |-> 3, translated_text |-> <<>>, source_text |-> <<>>],
    [id |-> 1, translated_text |-> <<0>>, source_text |-> <<Sentence>>] }

BridgeEffect == \E c \in BOOLEAN : RunEffect(c)

BridgeWrite == \E row \in Rows : RowWrite(row)

BridgeNext ==
  \/ BridgeEffect
  \/ WorkerTick
  \/ BridgeWrite
  \/ Realtime
  \/ FetchResolved
  \/ LoopWakes

SpecBridge == Started /\ [][BridgeNext]_vars

\* ------------------------------------------------------------------------
\* Properties
\* ------------------------------------------------------------------------
RECURSIVE Flatten(_)
Flatten(seqs) == IF seqs = <<>> THEN <<>> ELSE Head(seqs) \o Flatten(Tail(seqs))

\* every block ever pushed, in push order
FlatEnq == Flatten(enq)

LastCall == IF calls = <<>> THEN "none" ELSE calls[Len(calls)]

\* the step is a call of the public method m
Called(m) == Len(calls') = Len(calls) + 1 /\ calls'[Len(calls')] = m

\* C1: onComplete is never invoked in a state where the playback queue is
\* non-empty or where some scheduled unit has not yet finished playing.
C1_CompleteOnlyWhenDrained ==
  \A k \in 1..Len(completions) :
    completions[k].queueLength = 0 /\ completions[k].unfinished = {}

\* C2: between one start of the scheduler loop (addPCM16 turning isPlaying
\* from false to true) and the next, onComplete is invoked at most once,
\* by complete() or by an end notification.
C2_OncePerCycle ==
  \A j, k \in 1..Len(completions) :
    (j < k /\ completions[j].cycle >= 1)
      => completions[j].cycle # completions[k].cycle

\* the blocks are scheduled in the order they were pushed, each at most once
ScheduledFifo ==
  \A i, j \in 1..Len(sources) :
    i < j => \E p, q \in 1..Len(FlatEnq) :
               /\ p < q
               /\ FlatEnq[p] = sources[i].buffer
               /\ FlatEnq[q] = sources[j].buffer

\* of two units scheduled with no stop() between them the later one does
\* not start before the earlier one
StartsMonotone ==
  \A i, j \in 1..Len(sources) :
    (i < j /\ sources[i].epoch = sources[j].epoch)
      => sources[i].start <= sources[j].start

\* C3: blocks are scheduled in exactly the order they were enqueued, each
\* at most once, and with no stop() in between a later-scheduled unit never
\* starts before an earlier-scheduled one.
C3_FifoMonotoneStarts == ScheduledFifo /\ StartsMonotone

\* C4: immediately after stop() returns, from any reachable state, the
\* playback queue is empty, the active unit set is empty, isPlaying is
\* false and isStreamComplete is true.
C4_AfterStop ==
  [][Called("stop") =>
       /\ audioQueue' = <<>>
       /\ activeSources' = {}
       /\ ~isPlaying'
       /\ isStreamComplete']_vars

\* stop() has just run on a loop that was playing, with units in the active
\* set and blocks still queued
C4_Witness ==
  /\ LastCall = "stop"
  /\ \E i \in 1..Len(sources) : sources[i].stopAt = now
  /\ Len(FlatEnq) > Len(sources)
  /\ audioQueue = <<>> /\ activeSources = {}
  /\ ~isPlaying /\ isStreamComplete

\* no unit had played to its end when stop() force-stopped the units
NoneFinishedBeforeStop ==
  \A i \in 1..Len(sources) : sources[i].stopAt # -1

\* C5: after one addPCM16 followed by stop() before any block finishes
\* playing, onComplete has not been invoked, neither inside stop() nor by
\* the end notifications of the force-stopped units, and the queue and the
\* active unit set are empty.
C5_StopThenNoCompletion ==
  (calls = <<"addPCM16", "stop">> /\ NoneFinishedBeforeStop)
    => /\ completions = <<>>
       /\ audioQueue = <<>>
       /\ activeSources = {}

\* the k-th invocation of onComplete was made by a complete() that found
\* the queue empty, the active unit set empty and no end notification
\* outstanding
IdleComplete(k) ==
  /\ completions[k].via = "complete"
  /\ completions[k].queueLength = 0
  /\ completions[k].active = {}
  /\ completions[k].pending = {}

\* C6: complete() called while the queue is empty and no unit is active
\* sets isStreamComplete, invokes onComplete exactly once within the call
\* and changes nothing else; when no end notification is outstanding
\* either, no further invocation follows before the next call of a public
\* method.
C6_CompleteWhenIdle ==
  /\ [][(Called("complete") /\ audioQueue = <<>> /\ activeSources = {}) =>
          /\ isStreamComplete'
          /\ Len(completions') = Len(completions) + 1
          /\ completions'[Len(completions')].via = "complete"
          /\ SubSeq(completions', 1, Len(completions)) = completions
          /\ UNCHANGED <<now, audioQueue, isPlaying, checkInterval,
                         scheduledTime, sources, activeSources,
                         endOfQueueAudioSource, intervals, timeouts>>]_vars
  /\ [](\A j, k \in 1..Len(completions) :
          (j < k /\ IdleComplete(j))
            => completions[k].ncalls > completions[j].ncalls)

\* complete() ran on an idle streamer whose earlier unit had ended, and
\* time has passed since without another invocation
C6_Witness ==
  /\ LastCall = "complete"
  /\ Len(completions) >= 1
  /\ IdleComplete(Len(completions))
  /\ Len(sources) > 0
  /\ now > completions[Len(completions)].at
  /\ isStreamComplete

IsSuffix(x, y) ==
  Len(x) <= Len(y) /\ x = SubSeq(y, Len(y) - Len(x) + 1, Len(y))

\* C7: one addPCM16 call that decodes to N samples appends exactly
\* ceil(N / bufferSize) blocks to the queue tail; all but the last have
\* bufferSize samples, the last has N mod bufferSize samples (bufferSize
\* when N is a non-zero multiple), and no block is empty.
C7_BlocksPerIngest ==
  /\ [](\A k \in 1..Len(fed) :
          LET N == fed[k].length \div 2
              B == enq[k]
          IN  /\ Len(B) = (N + bufferSize - 1) \div bufferSize
              /\ \A b \in 1..Len(B) :
                   ArrLen(B[b]) =
                     IF b < Len(B) \/ N % bufferSize = 0
                     THEN bufferSize ELSE N % bufferSize
              /\ \A b \in 1..Len(B) : ArrLen(B[b]) > 0)
  /\ [][Called("addPCM16") =>
          /\ SubSeq(enq', 1, Len(enq)) = enq
          /\ IsSuffix(audioQueue', audioQueue \o enq'[Len(enq')])]_vars

\* two calls: a buffer of exactly one block appended behind the two blocks
\* still queued of a buffer of two blocks and a remainder
C7_Witness ==
  /\ Len(fed) = 2
  /\ fed[1].length = 4 * bufferSize + 18 /\ Len(enq[1]) = 3
  /\ ArrLen(enq[1][3]) = 9
  /\ fed[2].length = 2 * bufferSize /\ Len(enq[2]) = 1
  /\ ArrLen(enq[2][1]) = bufferSize
  /\ Len(audioQueue) = 3

\* the signed 16-bit value of two bytes, low byte first
LE16(lo, hi) == ((lo + 256 * hi + 32768) % 65536) - 32768

RECURSIVE SumLengths(_)
SumLengths(chunks) ==
  IF chunks = <<>> THEN 0 ELSE Head(chunks).length + SumLengths(Tail(chunks))

\* byte i (0-based) of the concatenation of the buffers
RECURSIVE ConcatByte(_, _)
ConcatByte(chunks, i) ==
  IF i < Head(chunks).length THEN ByteAt(Head(chunks), i)
  ELSE ConcatByte(Tail(chunks), i - Head(chunks).length)

\* sample p (0-based) of the conversion of the concatenated bytes
RefSample(p) ==
  <<LE16(ConcatByte(fed, 2 * p), ConcatByte(fed, 2 * p + 1)), 32768>>

RECURSIVE SumArrLen(_)
SumArrLen(blocks) ==
  IF blocks = <<>> THEN 0 ELSE ArrLen(Head(blocks)) + SumArrLen(Tail(blocks))

Pushed(block) == \E p \in 1..Len(FlatEnq) : FlatEnq[p] = block

\* C9: every block holds samples of exactly one addPCM16 call; a partial
\* block left by one call is never merged with or extended by samples of a
\* later call, so two consecutive 9-sample buffers give two separate
\* 9-sample blocks.
C9_NoMergeAcrossIngests ==
  /\ \A k \in 1..Len(enq) : \A b \in 1..Len(enq[k]) :
       \A r \in 1..Len(enq[k][b]) : enq[k][b][r].chunk = fed[k]
  /\ \A q \in 1..Len(audioQueue) : Pushed(audioQueue[q])
  /\ \A i \in 1..Len(sources) : Pushed(sources[i].buffer)
  /\ \A k \in 1..(Len(fed) - 1) :
       (fed[k].length = 18 /\ fed[k + 1].length = 18)
         => /\ Len(enq[k]) = 1 /\ ArrLen(enq[k][1]) = 9
            /\ Len(enq[k + 1]) = 1 /\ ArrLen(enq[k + 1][1]) = 9

\* a 9-sample block is waiting in the queue when the next 9-sample buffer
\* arrives, and both blocks are queued separately
C9_Witness ==
  /\ Len(fed) = 3
  /\ fed[2].length = 18 /\ fed[3].length = 18
  /\ Len(audioQueue) = 2
  /\ ArrLen(audioQueue[1]) = 9 /\ ArrLen(audioQueue[2]) = 9
  /\ audioQueue[1][1].chunk.id = 2 /\ audioQueue[2][1].chunk.id = 3

\* the block pushed p-th has been scheduled into the output graph
Scheduled(p) == \E i \in 1..Len(sources) : sources[i].buffer = FlatEnq[p]

\* stop() was called after the k-th call of addPCM16
StopAfterIngest(k) ==
  \E a, b \in 1..Len(calls) :
    /\ a < b
    /\ calls[a] = "addPCM16"
    /\ CountOf(SubSeq(calls, 1, a), "addPCM16") = k
    /\ calls[b] = "stop"

\* C10: every block appended by addPCM16, also while the loop is draining
\* or waiting on the recheck timer, is eventually scheduled unless stop()
\* is called first, when pending timers fire and the clock advances.
C10_EveryBlockScheduled ==
  \A p \in 1..(2 * MaxIngest) :
    (Len(FlatEnq) >= p)
      ~> (/\ Len(FlatEnq) >= p
          /\ \/ Scheduled(p)
             \/ StopAfterIngest(FlatEnq[p][1].chunk.id))

\* blocks handed over while the loop was running, one to a draining loop
\* with a one-shot timer pending, have all been scheduled without a stop()
C10_Witness ==
  /\ cycle = 1
  /\ Len(fed) = 3
  /\ fed[1].length = 4 * bufferSize /\ fed[2].length = 18
  /\ CountOf(calls, "stop") = 0
  /\ Len(sources) = Len(FlatEnq)
  /\ audioQueue = <<>>

\* ------------------------------------------------------------------------
\* resume
\* ------------------------------------------------------------------------
\* the step in which the statements of resume() after the await run: the
\* call itself on a running context, ContextResumed otherwise
ResumeTakesEffect ==
  \/ Called("resume") /\ resuming' = resuming
  \/ resuming' < resuming

\* C11: whenever resume() takes effect, whatever the state and the cursor
\* before, the cursor is afterwards at least the device time plus the
\* initial buffer delay and isStreamComplete is false.
C11_ResumePrimesCursor ==
  [][ResumeTakesEffect =>
       /\ scheduledTime' >= now + initialBufferTime
       /\ scheduledTime' = now' + initialBufferTime
       /\ ~isStreamComplete']_vars

\* resume() has taken effect on a stream that was marked complete and whose
\* cursor was further ahead than the initial buffer delay
C11_Witness ==
  /\ LastCall = "resume"
  /\ resuming = 0
  /\ ~isStreamComplete
  /\ scheduledTime = now + initialBufferTime
  /\ "complete" \in {calls[k] : k \in 1..Len(calls)}
  /\ \E i \in 1..Len(sources) :
       sources[i].start + sources[i].dur > scheduledTime

\* ------------------------------------------------------------------------
\* addPCM16 and the scheduler loop
\* ------------------------------------------------------------------------
\* C12: after every ingest call isStreamComplete is false.  A call made
\* while the loop is not running sets isPlaying and moves the cursor to the
\* device time plus the initial buffer delay before its scheduling pass:
\* the first unit of that pass starts there, and if the pass schedules
\* nothing the cursor stays there.  A call made while the loop is running
\* leaves the cursor alone and performs no pass: it schedules no unit and
\* arms no timer, it only appends its blocks to the queue.
C12_IngestStartsLoop ==
  [][Called("addPCM16") =>
       /\ ~isStreamComplete'
       /\ isPlaying'
       /\ IF isPlaying
          THEN /\ scheduledTime' = scheduledTime
               /\ sources' = sources
               /\ activeSources' = activeSources
               /\ endOfQueueAudioSource' = endOfQueueAudioSource
               /\ checkInterval' = checkInterval
               /\ intervals' = intervals
               /\ timeouts' = timeouts
               /\ audioQueue' = audioQueue \o enq'[Len(enq')]
          ELSE /\ IF Len(sources') > Len(sources)
                  THEN sources'[Len(sources) + 1].start =
                         now + initialBufferTime
                  ELSE scheduledTime' = now + initialBufferTime
               /\ \/ checkInterval' # NULL
                  \/ Len(timeouts') = Len(timeouts) + 1]_vars

\* two ingests at the same instant: the first started the loop and
\* scheduled a unit at the initial buffer delay, the second only queued
\* its blocks
C12_Witness ==
  /\ calls = <<"addPCM16", "addPCM16">>
  /\ now = 0
  /\ isPlaying
  /\ Len(sources) = 1
  /\ sources[1].start = initialBufferTime
  /\ scheduledTime = initialBufferTime + sources[1].dur
  /\ Len(audioQueue) > 0
  /\ timeouts = <<>>

\* ------------------------------------------------------------------------
\* stop
\* ------------------------------------------------------------------------
\* C14: immediately after stop() the cursor equals the current device time
\* and no periodic recheck timer is armed: the one pending before the call
\* has been cancelled.
C14_StopResetsCursorAndTimer ==
  [][Called("stop") =>
       /\ scheduledTime' = now'
       /\ checkInterval' = NULL
       /\ intervals' = {}]_vars

\* stop() was called while the recheck timer was armed and the cursor was
\* ahead of the device time: a unit scheduled by the ingest before it ended
\* later than the time of the stop
C14_Witness ==
  /\ calls = <<"addPCM16", "stop">>
  /\ Len(sources) = 1
  /\ Len(enq[1]) = 1
  /\ intervals = {}
  /\ scheduledTime = now
  /\ sources[1].stopAt = now
  /\ sources[1].start + sources[1].dur > now

\* C13: stop() leaves the ambient pad (its oscillators, filter, gain and
\* pending teardown), the main gain stage with its connection to the
\* output, and the keep-alive oscillator unchanged.
C13_StopLeavesGraph ==
  [][Called("stop") =>
       UNCHANGED <<padGain, padFilter, padOscillators, padTimeouts,
                   gainNode, keepAliveOscillator>>]_vars

\* stop() force-stopped a unit while the pad was playing and the
\* keep-alive oscillator was running
C13_Witness ==
  /\ LastCall = "stop"
  /\ \E i \in 1..Len(sources) : sources[i].stopAt # -1
  /\ padGain # NoNode
  /\ padFilter # NoNode
  /\ Len(padOscillators) = Len(PadFreqs)
  /\ gainNode.destination
  /\ keepAliveOscillator = KeepAlive

\* ------------------------------------------------------------------------
\* The ambient pad
\* ------------------------------------------------------------------------
PadCalled(m) ==
  Len(padCalls') = Len(padCalls) + 1 /\ padCalls'[Len(padCalls')] = m

\* C15: startPad is idempotent while the pad is running: a call made when
\* the pad exists changes nothing, and after any call there is one gain,
\* one filter and exactly three oscillators.
C15_StartPadIdempotent ==
  [][PadCalled("startPad") =>
       /\ padGain # NoNode =>
            UNCHANGED <<padGain, padFilter, padOscillators, padTimeouts,
                        graph, This>>
       /\ padGain' # NoNode
       /\ padFilter' # NoNode
       /\ Len(padOscillators') = Len(PadFreqs)]_vars

\* startPad was called twice in a row: the pad is the one the first call
\* made, with its single fade-in ramp
C15_Witness ==
  /\ padCalls = <<"startPad", "startPad">>
  /\ padGain # NoNode
  /\ Len(padGain.ramps) = 1
  /\ padFilter # NoNode
  /\ Len(padOscillators) = Len(PadFreqs)

\* ------------------------------------------------------------------------
\* End notifications and the completion callback
\* ------------------------------------------------------------------------
\* C16: the end notification of a unit invokes onComplete only if at that
\* moment the queue is empty, the unit is the end-of-queue source and the
\* stream is marked complete.
C16_CompletionNeedsStreamComplete ==
  \A k \in 1..Len(completions) :
    completions[k].via = "onended" =>
      /\ completions[k].queueLength = 0
      /\ completions[k].marker = completions[k].source
      /\ completions[k].streamComplete

\* ------------------------------------------------------------------------
\* Scheduled units
\* ------------------------------------------------------------------------
\* C17: scheduled units never overlap in time: of two units scheduled one
\* after the other with no stop() between them, the later one starts no
\* earlier than the earlier one's start plus its duration.
C17_NoOverlap ==
  \A i \in 1..(Len(sources) - 1) :
    sources[i].epoch = sources[i + 1].epoch =>
      sources[i + 1].start >= sources[i].start + sources[i].dur

\* C18: the active set holds exactly the units that were scheduled and have
\* neither finished nor been force-stopped: every unit leaves the set once
\* its end notification has been delivered, also a unit that was the
\* end-of-queue source at some time.  The units in question are those
\* scheduled since the last stop() whose end notification is outstanding.
C18_ActiveSetExact ==
  activeSources =
    {i \in 1..Len(sources) : ~sources[i].ended /\ sources[i].epoch = Epoch}

\* the units whose hook can still invoke onComplete
Armed ==
  {i \in 1..Len(sources) : sources[i].onended = "eoq" /\ ~sources[i].ended}

\* the units that were made the end-of-queue source when scheduled (the
\* hook of any other unit is "plain" for good)
Designated == {i \in 1..Len(sources) : sources[i].onended # "plain"}

\* C19: at any time at most one unit holds a hook that can invoke
\* onComplete and it is the unit most recently made the end-of-queue
\* source; the end notification of a superseded end-of-queue source never
\* invokes onComplete, and no unit invokes it twice.
C19_SingleCompletionHook ==
  /\ Cardinality(Armed) <= 1
  /\ \A i \in Armed : \A j \in Designated : j <= i
  /\ \A k \in 1..Len(completions) :
       completions[k].via = "onended" =>
         /\ completions[k].source \in Designated
         /\ \A j \in Designated :
              j <= completions[k].scheduled => j <= completions[k].source
         /\ \A m \in 1..Len(completions) :
              (m # k /\ completions[m].via = "onended")
                => completions[m].source # completions[k].source

\* a superseded end-of-queue source has delivered its end notification
\* without invoking onComplete, and the unit that superseded it has invoked
\* it since
C19_Witness ==
  /\ Len(completions) = 1
  /\ completions[1].via = "onended"
  /\ \E i \in 1..Len(sources) :
       /\ i < completions[1].source
       /\ sources[i].onended = "null"
       /\ sources[i].ended
       /\ sources[i].stopAt = -1

\* ------------------------------------------------------------------------
\* The loop stops
\* ------------------------------------------------------------------------
\* every timer callback, end notification and continuation that was due has
\* been delivered
Quiet ==
  /\ resuming = 0
  /\ \A iv \in intervals : iv.due > now
  /\ \A k \in 1..Len(timeouts) : timeouts[k] > now
  /\ \A i \in 1..Len(sources) : ~EndDue(i)

\* C20: whenever the queue is empty and the stream is marked complete (by
\* complete() or stop()), the scheduler eventually reaches the stopped
\* state, isPlaying false and no recheck timer armed, given that timers
\* fire and no further ingest occurs.  In LiveSpec the public methods are
\* called up to LiveCallsUntil only and the clock then runs on to
\* LiveMaxTime, more than two seconds later, with every timer firing on
\* time: if the queue is empty and the stream is marked complete at the end
\* of that run, the scheduler must have stopped.
C20_CompleteStreamStops ==
  (/\ now + ClockStep > LiveMaxTime
   /\ Quiet
   /\ audioQueue = <<>>
   /\ isStreamComplete)
    => (~isPlaying /\ checkInterval = NULL /\ intervals = {})

\* ------------------------------------------------------------------------
\* Timers of the scheduler
\* ------------------------------------------------------------------------
\* C21: in every reachable state at most one one-shot timer that re-invokes
\* the scheduling pass is pending, however ingest, stop, firings of the
\* periodic recheck and firings of one-shot timers interleave.
C21_OneOneShotTimer == Len(timeouts) <= 1

\* C22: in every reachable state at most one periodic recheck timer is
\* armed, and the armed one is the one checkInterval holds: a pass that
\* ends with an empty queue and an incomplete stream arms the timer only
\* if none is armed.
C22_OnePeriodicTimer ==
  /\ Cardinality(intervals) <= 1
  /\ \A iv \in intervals : checkInterval = iv.id
  /\ checkInterval # NULL => \E iv \in intervals : iv.id = checkInterval

\* the periodic timer was armed when the second block arrived; its callback
\* ran the pass that scheduled that block and emptied the queue, and the
\* pass armed no second timer
C22_Witness ==
  /\ calls = <<"addPCM16", "addPCM16">>
  /\ Len(enq[1]) = 1
  /\ Len(sources) = 2
  /\ audioQueue = <<>>
  /\ ~isStreamComplete
  /\ Cardinality(intervals) = 1

\* ------------------------------------------------------------------------
\* The end-of-queue source and the cursor
\* ------------------------------------------------------------------------
\* C23: whenever the end-of-queue source is set, it is the most recently
\* scheduled unit and that unit is a member of the active set.
C23_MarkerIsLastActive ==
  endOfQueueAudioSource # NULL =>
    /\ endOfQueueAudioSource = Len(sources)
    /\ endOfQueueAudioSource \in activeSources

\* the cursor a pass of this step starts from: addPCM16 re-primes it before
\* the pass it runs
CursorAtPass ==
  IF Called("addPCM16") THEN now + initialBufferTime ELSE scheduledTime

\* the cursor before the i-th unit of sources' was scheduled in this step
CursorBefore(i) ==
  IF i = Len(sources) + 1 THEN CursorAtPass
  ELSE sources'[i - 1].start + sources'[i - 1].dur

\* C24 as stated: each time a block is scheduled its start time is the
\* maximum of the cursor and the device time, so never earlier than the
\* device time, afterwards the cursor is that start time plus the block's
\* duration, and so the cursor has advanced by exactly one block's
\* duration.
C24_CursorAdvancesOneBlock ==
  [][Len(sources') > Len(sources) =>
       /\ \A i \in (Len(sources) + 1)..Len(sources') :
            /\ sources'[i].start >= now
            /\ sources'[i].start = Max(CursorBefore(i), now)
            /\ (sources'[i].start + sources'[i].dur) - CursorBefore(i) =
                 Duration(sources'[i].buffer)
       /\ scheduledTime' =
            sources'[Len(sources')].start + sources'[Len(sources')].dur]_vars

\* C24, amended: each time a block is scheduled its start time is the
\* maximum of the cursor and the device time, so never earlier than the
\* device time, and afterwards the cursor is that start time plus the
\* block's duration.  The cursor advances by exactly one block's duration
\* when it was not behind the device time, and otherwise by more: to the
\* device time plus one block's duration.
C24_StartIsMaxCursorNow ==
  [][Len(sources') > Len(sources) =>
       /\ \A i \in (Len(sources) + 1)..Len(sources') :
            /\ sources'[i].start >= now
            /\ sources'[i].dur = Duration(sources'[i].buffer)
            /\ sources'[i].start = Max(CursorBefore(i), now)
            /\ (sources'[i].start + sources'[i].dur) - CursorBefore(i) =
                 IF CursorBefore(i) >= now THEN sources'[i].dur
                 ELSE (now - CursorBefore(i)) + sources'[i].dur
       /\ scheduledTime' =
            sources'[Len(sources')].start + sources'[Len(sources')].dur]_vars

\* the second unit was scheduled by a pass that found the cursor in the
\* past: it starts at the device time of that pass, after a gap
C24_Witness ==
  /\ calls = <<"addPCM16", "addPCM16">>
  /\ Len(sources) = 2
  /\ sources[2].start > sources[1].start + sources[1].dur
  /\ scheduledTime = sources[2].start + sources[2].dur

\* C25: a block is dequeued and scheduled only when the cursor is less than
\* the device time plus the lookahead window at that moment; consequently
\* in every reachable state the cursor is less than the device time plus
\* the lookahead window plus the duration of one full block.
C25_LookaheadBound ==
  /\ [](scheduledTime < now + SCHEDULE_AHEAD_TIME + bufferSize)
  /\ [][Len(sources') > Len(sources) =>
          \A i \in (Len(sources) + 1)..Len(sources') :
            CursorBefore(i) < now + SCHEDULE_AHEAD_TIME]_vars

\* a pass has scheduled a full block and stopped with blocks still queued,
\* because the cursor reached the end of the lookahead window
C25_Witness ==
  /\ Len(audioQueue) > 0
  /\ Len(sources) > 0
  /\ sources[Len(sources)].dur = bufferSize
  /\ scheduledTime >= now + SCHEDULE_AHEAD_TIME
  /\ Len(timeouts) > 0

\* ------------------------------------------------------------------------
\* The loop and its timers
\* ------------------------------------------------------------------------
\* C26: a periodic recheck timer is armed only while the loop is active:
\* in every reachable state isPlaying = false implies that no periodic
\* timer is armed.
C26_IdleHasNoInterval ==
  ~isPlaying => (intervals = {} /\ checkInterval = NULL)

\* C27: between operations a non-empty queue implies that isPlaying is true
\* and that at least one timer, periodic or one-shot, is pending that will
\* run a scheduling pass: no reachable state has queued blocks with nothing
\* armed to drain them.  The callback of a one-shot timer always runs a
\* pass, that of the periodic timer runs one when the queue is non-empty.
C27_QueuedBlocksHaveTimer ==
  Len(audioQueue) > 0 =>
    (isPlaying /\ (intervals # {} \/ Len(timeouts) > 0))

\* blocks arrived while the loop was waiting on the periodic timer alone
C27_Witness ==
  /\ Len(audioQueue) > 0
  /\ isPlaying
  /\ timeouts = <<>>
  /\ Cardinality(intervals) = 1
  /\ Len(sources) > 0


\* position in calls of the k-th call of addPCM16
IngestAt(k) ==
  CHOOSE a \in 1..Len(calls) :
    calls[a] = "addPCM16" /\ CountOf(SubSeq(calls, 1, a), "addPCM16") = k

\* number of stop() calls made before the k-th call of addPCM16
IngestEpoch(k) == CountOf(SubSeq(calls, 1, IngestAt(k)), "stop")

\* stop() has been called, and neither resume() nor addPCM16 since
StoppedSince ==
  \E a \in 1..Len(calls) :
    /\ calls[a] = "stop"
    /\ \A b \in (a + 1)..Len(calls) : calls[b] \notin {"resume", "addPCM16", "stop"}

RECURSIVE SumDur(_)
SumDur(blocks) ==
  IF blocks = <<>> THEN 0 ELSE Duration(Head(blocks)) + SumDur(Tail(blocks))

\* C28: the first addPCM16 after stop(), with no resume() in between,
\* restarts playback: it clears isStreamComplete, sets isPlaying, primes
\* the cursor to now + initialBufferTime and schedules from there, in order,
\* the first blocks of its own buffer (the rest stays queued); and a block
\* is only ever scheduled before the first stop() that follows its
\* addPCM16, so no block discarded by stop() is scheduled.
C28_IngestRestartsAfterStop ==
  /\ [](\A i \in 1..Len(sources) :
          sources[i].epoch = IngestEpoch(sources[i].buffer[1].chunk.id))
  /\ [][(Called("addPCM16") /\ StoppedSince) =>
          LET new == enq'[Len(enq')]
              n == Len(sources') - Len(sources)
          IN  /\ ~isStreamComplete'
              /\ isPlaying'
              /\ n <= Len(new)
              /\ new # <<>> => n >= 1
              /\ \A j \in 1..n :
                    /\ sources'[Len(sources) + j].buffer = new[j]
                    /\ sources'[Len(sources) + j].start =
                         now + initialBufferTime + SumDur(SubSeq(new, 1, j - 1))
                    /\ sources'[Len(sources) + j].epoch = CountOf(calls, "stop")
              /\ audioQueue' = SubSeq(new, n + 1, Len(new))
              /\ scheduledTime' =
                    now + initialBufferTime + SumDur(SubSeq(new, 1, n))]_vars

\* stop() discarded a queued block of the first buffer, and the next
\* addPCM16 has restarted playback with a block of its own
C28_Witness ==
  /\ calls = <<"addPCM16", "stop", "addPCM16">>
  /\ Len(enq[1]) >= 2
  /\ \E i \in 1..Len(sources) : sources[i].epoch = 0
  /\ ~ \E i \in 1..Len(sources) : sources[i].buffer = enq[1][Len(enq[1])]
  /\ \E i \in 1..Len(sources) :
       sources[i].epoch = 1 /\ sources[i].buffer = enq[2][1]
  /\ isPlaying /\ ~isStreamComplete

\* C29: in every state the pad gain is present exactly when the pad filter
\* is present; with the gain present exactly three pad oscillators are
\* held, all running; without it none is held; so never more than three.
C29_PadAllOrNothing ==
  /\ (padGain # NoNode) <=> (padFilter # NoNode)
  /\ padGain # NoNode =>
       /\ Len(padOscillators) = Len(PadFreqs)
       /\ \A k \in 1..Len(padOscillators) : padOscillators[k].started
  /\ padGain = NoNode => padOscillators = <<>>
  /\ Len(padOscillators) <= 3

\* a pad was started, stopped and torn down, and a second pad is running
C29_Witness ==
  /\ padCalls = <<"startPad", "stopPad", "startPad">>
  /\ padTimeouts = <<>>
  /\ padGain # NoNode
  /\ Len(padGain.ramps) = 1
  /\ padFilter # NoNode
  /\ Len(padOscillators) = 3

\* C30: a pad is removed only when a fade-out of that pad has elapsed, that
\* is a ramp to 0 put on its gain by a stopPad call after the startPad that
\* created it has reached its end time; a teardown timer armed for an
\* earlier pad never removes it.
C30_TeardownSparesLaterPad ==
  [][(padGain # NoNode /\ padGain' = NoNode) =>
       \E r \in 2..Len(padGain.ramps) :
         /\ padGain.ramps[r].value = 0
         /\ padGain.ramps[r].endTime <= now]_vars

\* the handlers given to addWorklet for the name, in call order
Passed(workletName) ==
  LET RECURSIVE P(_)
      P(k) == IF k = 0 THEN <<>>
              ELSE IF workletCalls[k].name = workletName
                   THEN Append(P(k - 1), workletCalls[k].handler)
                   ELSE P(k - 1)
  IN P(Len(workletCalls))

\* C31: for each worklet name, however many addWorklet calls were made and
\* also when calls were made while the module was loading, at most one
\* worklet node was constructed, the entry holds that node or none, and its
\* handler list is exactly the handlers passed, one entry per call.
C31_AddWorkletOnce ==
  \A n \in WorkletNames :
    LET made == {k \in 1..Len(workletNodes) : workletNodes[k].name = n}
        g == registeredWorklets.graphs[n]
    IN  /\ Cardinality(made) <= 1
        /\ g.handlers = Passed(n)
        /\ g.exists <=> Passed(n) # <<>>
        /\ g.exists => registeredWorklets.present
        /\ g.node # NoNode => \E k \in made : workletNodes[k] = g.node
        /\ made # {} => g.node # NoNode

\* three calls for one name, two of them made while the module of the
\* first was loading; the module has loaded and the one node is in place
C31_Witness ==
  \E n \in WorkletNames :
    /\ Len(Passed(n)) = 3
    /\ workletCalls[2].loading /\ workletCalls[3].loading
    /\ registeredWorklets.graphs[n].node # NoNode
    /\ Len(registeredWorklets.graphs[n].handlers) = 3
    /\ Len(workletNodes) = 1

\* the streamer of the two whose construction recorded keepAlive
With(keepAlive) == IF keepAliveOscillator = keepAlive THEN Self ELSE twin

Enqueued ==
  LET RECURSIVE E(_)
      E(k) == IF k = 0 THEN <<>> ELSE E(k - 1) \o deliveries[k].enqueued
  IN E(Len(deliveries))

\* position of the segment in Enqueued, 0 when it was never pushed
EnqueuedAt(segment) ==
  IF \E p \in 1..Len(Enqueued) : Enqueued[p] = segment
  THEN CHOOSE p \in 1..Len(Enqueued) : Enqueued[p] = segment
  ELSE 0

\* at most one invocation of processQueueLoop is inside its loop
OneConsumer == Len(loops) <= 1

\* the segments were sent in the order of their pushes, none twice
SentInOrder ==
  /\ \A i \in 1..Len(sent) : EnqueuedAt(sent[i].text.raw) > 0
  /\ \A i, j \in 1..Len(sent) :
       i < j => EnqueuedAt(sent[i].text.raw) < EnqueuedAt(sent[j].text.raw)

\* C33: across new rows and runs of the effect with the prop either way,
\* at most one consumer loop (processQueueLoop) is active in every state,
\* and the segments are sent to the client in the order they were
\* enqueued, each at most once.
C33_SingleConsumerInOrder == OneConsumer /\ SentInOrder

\* the record has text to read: the chosen text is not white space only
Readable(data) == TrimNonEmpty(TextToRead(data))

\* C34: processNewData enqueues segments only for a record whose id
\* differs from the last processed id; of two consecutive deliveries of
\* the same record the first enqueues its segments and the second
\* nothing; a record with no readable text leaves the queue and the last
\* processed id as they were.
C34_DedupById ==
  \A k \in 1..Len(deliveries) :
    LET d == deliveries[k]
    IN  /\ d.enqueued # <<>> => d.data.id # d.last
        /\ (k > 1 /\ deliveries[k - 1].data = d.data /\ Readable(d.data)
              /\ deliveries[k - 1].last # d.data.id)
             => /\ deliveries[k - 1].enqueued = Segments(d.data, k - 1)
                /\ d.enqueued = <<>>
        /\ ~Readable(d.data) => (d.enqueued = <<>> /\ d.lastAfter = d.last)
============================================================================
